---- MODULE Spec2Model ----
(***************************************************************************)
(* A model of the template/constraint layer of the modal-axiomatization    *)
(* synthesizer: many-sorted languages (synthesis/fol/language.py), the     *)
(* first-order syntax (synthesis/fol/syntax.py) and the first-order        *)
(* templates (synthesis/fol/templates/formula.py).                         *)
(*                                                                         *)
(* Python objects are records tagged by their class in the field cls;      *)
(* a method that is overridden per class is one operator that dispatches   *)
(* on cls.  Python's None is the record None.  A backend (SMT) term is a   *)
(* record tagged by its constructor in the field op; a control variable    *)
(* (BoundedIntegerVariable) is the natural number that names its backend   *)
(* symbol.  A raised exception is a value tagged by the field raised.      *)
(***************************************************************************)
EXTENDS Integers, Sequences, FiniteSets, TLC

VARIABLES
    (* first-order syntax: a formula under construction and substitution *)
    e, e0, sigma, structure, valuation, lhs, rhs, spc, built

svars == <<e, e0, sigma, structure, valuation, lhs, rhs, spc, built>>

VARIABLES
    (* languages: the operands and the outcome of Language.expand *)
    lang_self, lang_other, lang_result, lpc

lvars == <<lang_self, lang_other, lang_result, lpc>>

VARIABLES
    (* templates: the template as constructed, the template after the
       substitutions sigmas, the number of backend symbols allocated, the
       solver's assertion and model, and what was read off the model *)
    tmpl, cur, sigmas, fresh, assertion, solver_model, candidate, orig_candidate, eq, tpc

tvars == <<tmpl, cur, sigmas, fresh, assertion, solver_model, candidate, orig_candidate, eq, tpc>>

\* the driver: the formulas of the template, the two structure templates,
\* the assertions of solver1, the stack of assertions of solver2, the
\* candidate at hand, the accepted formulas, the log of the proposed and of
\* the rejected candidates, the position in the loop
VARIABLES formula_template, trivial_model, goal_model, solver1, solver2, cand,
          true_formulas, proposed, rejected, dpc

\* the completeness check after the loop: the complement theory and a
\* structure on which the constraint of its model template is evaluated
VARIABLES complement_theory, complement_structure

cvars == <<complement_theory, complement_structure>>

dvars == <<formula_template, trivial_model, goal_model, solver1, solver2, cand,
           true_formulas, proposed, rejected, dpc, cvars>>

\* TermTemplate.enumerate: the frame of the generator (the dictionary of
\* terms, the depth of its next round, the pairs of the round at hand that
\* are still to be yielded) and the pairs it has yielded
VARIABLES generator, yielded

gvars == <<generator, yielded>>

vars == <<svars, lvars, tvars, dvars, gvars>>

None == [none |-> TRUE]

(***************************************************************************)
(* Bounds of the model.                                                    *)
(***************************************************************************)
\* number of constructor applications on top of the initial atomic formula
MaxBuild == 2
\* elements of the carrier of a finite structure: 0 .. MaxCarrier - 1
MaxCarrier == 2
\* depth of a TermTemplate
MaxDepth == 1
\* formula_depth of a QuantifierFreeFormulaTemplate
MaxFormulaDepth == 1
\* the values a solver model gives a control variable: 0 .. MaxNodeValue
MaxNodeValue == 7

(***************************************************************************)
(* language.py: sorts, symbols                                             *)
(***************************************************************************)
Sort(name) == [name |-> name, smt_hook |-> "None"]

FunctionSymbol(input_sorts, output_sort, name) ==
    [input_sorts |-> input_sorts, output_sort |-> output_sort,
     name |-> name, smt_hook |-> "None"]

RelationSymbol(input_sorts, name) ==
    [input_sorts |-> input_sorts, name |-> name, smt_hook |-> "None"]

Language(sorts, function_symbols, relation_symbols) ==
    [sorts |-> sorts, function_symbols |-> function_symbols,
     relation_symbols |-> relation_symbols]

\* the sort and the relation symbols of the example theories, and function
\* symbols to build terms from
sort_world == Sort("W")
sort_U == Sort("U")
transition_symbol == RelationSymbol(<<sort_world, sort_world>>, "R")
p_symbol == RelationSymbol(<<sort_world>>, "P")
c_symbol == FunctionSymbol(<<>>, sort_world, "c")
f_symbol == FunctionSymbol(<<sort_world>>, sort_world, "f")
g_symbol == FunctionSymbol(<<sort_world, sort_world>>, sort_U, "g")

(***************************************************************************)
(* syntax.py: constructors of the dataclasses                              *)
(***************************************************************************)
Variable(name, sort) == [cls |-> "Variable", name |-> name, sort |-> sort]

Application(function_symbol, arguments) ==
    [cls |-> "Application", function_symbol |-> function_symbol,
     arguments |-> arguments]

Verum == [cls |-> "Verum"]

Falsum == [cls |-> "Falsum"]

RelationApplication(relation_symbol, arguments) ==
    [cls |-> "RelationApplication", relation_symbol |-> relation_symbol,
     arguments |-> arguments]

Conjunction(left, right) == [cls |-> "Conjunction", left |-> left, right |-> right]

Disjunction(left, right) == [cls |-> "Disjunction", left |-> left, right |-> right]

Negation(formula) == [cls |-> "Negation", formula |-> formula]

Implication(left, right) == [cls |-> "Implication", left |-> left, right |-> right]

Equivalence(left, right) == [cls |-> "Equivalence", left |-> left, right |-> right]

UniversalQuantification(variable, body) ==
    [cls |-> "UniversalQuantification", variable |-> variable, body |-> body]

ExistentialQuantification(variable, body) ==
    [cls |-> "ExistentialQuantification", variable |-> variable, body |-> body]

BinaryClasses == {"Conjunction", "Disjunction", "Implication", "Equivalence"}

QuantifierClasses == {"UniversalQuantification", "ExistentialQuantification"}

\* the union of a family of sets indexed by the positions of a tuple
UnionOver(seq) == UNION {seq[i] : i \in DOMAIN seq}

\* x in tuple
In(x, tuple) == \E i \in DOMAIN tuple : tuple[i] = x

(***************************************************************************)
(* syntax.py: substitute.  A substitution (Mapping[Variable, Term]) is a   *)
(* function whose domain is a set of Variable records.                     *)
(***************************************************************************)
RECURSIVE substitute(_, _)
substitute(self, substitution) ==
    CASE self.cls = "Variable" ->
            IF self \in DOMAIN substitution THEN substitution[self] ELSE self
      [] self.cls = "Application" ->
            Application(self.function_symbol,
                [i \in DOMAIN self.arguments |->
                    substitute(self.arguments[i], substitution)])
      [] self.cls \in {"Verum", "Falsum"} -> self
      [] self.cls = "RelationApplication" ->
            RelationApplication(self.relation_symbol,
                [i \in DOMAIN self.arguments |->
                    substitute(self.arguments[i], substitution)])
      [] self.cls \in BinaryClasses ->
            [cls |-> self.cls,
             left |-> substitute(self.left, substitution),
             right |-> substitute(self.right, substitution)]
      [] self.cls = "Negation" ->
            Negation(substitute(self.formula, substitution))
      [] self.cls \in QuantifierClasses ->
            LET filtered ==
                    IF self.variable \in DOMAIN substitution
                    THEN [k \in DOMAIN substitution \ {self.variable} |->
                            substitution[k]]
                    ELSE substitution
            IN  [cls |-> self.cls, variable |-> self.variable,
                 body |-> substitute(self.body, filtered)]

(***************************************************************************)
(* syntax.py: get_free_variables                                           *)
(***************************************************************************)
RECURSIVE get_free_variables(_)
get_free_variables(self) ==
    CASE self.cls = "Variable" -> {self}
      [] self.cls \in {"Application", "RelationApplication"} ->
            UnionOver([i \in DOMAIN self.arguments |->
                        get_free_variables(self.arguments[i])])
      [] self.cls \in {"Verum", "Falsum"} -> {}
      [] self.cls \in BinaryClasses ->
            get_free_variables(self.left) \cup get_free_variables(self.right)
      [] self.cls = "Negation" -> get_free_variables(self.formula)
      [] self.cls \in QuantifierClasses ->
            get_free_variables(self.body) \ {self.variable}

(***************************************************************************)
(* Finite structures (section 4.6 of the specification): a carrier per     *)
(* sort name, a table per function symbol name and a set of tuples per     *)
(* relation symbol name.  Interpretation is carried out to the value the   *)
(* backend term denotes in the structure.                                  *)
(***************************************************************************)
interpret_sort(struct, sort) == struct.carriers[sort.name]

interpret_function(struct, symbol, arguments) ==
    struct.functions[symbol.name][arguments]

interpret_relation(struct, symbol, arguments) ==
    arguments \in struct.relations[symbol.name]

Raise(exception) == [raised |-> TRUE, exception |-> exception]

Return(value) == [raised |-> FALSE, value |-> value]

\* the first exception raised while the elements of a tuple of results are
\* computed in order, or the tuple of their values
Collect(results) ==
    IF \E i \in DOMAIN results : results[i].raised
    THEN results[CHOOSE i \in DOMAIN results :
                    /\ results[i].raised
                    /\ \A j \in DOMAIN results : results[j].raised => i <= j]
    ELSE Return([i \in DOMAIN results |-> results[i].value])

(***************************************************************************)
(* syntax.py: interpret                                                    *)
(***************************************************************************)
\* the mutant of the extension that keeps the value the valuation has
extend_valuation_kept(val, variable, smt_var) ==
    [k \in DOMAIN val \cup {variable} |->
        IF k \in DOMAIN val THEN val[k] ELSE smt_var]

\* { **valuation, self.variable: smt_var }
extend_valuation(val, variable, smt_var) ==
    [k \in DOMAIN val \cup {variable} |->
        IF k = variable THEN smt_var ELSE val[k]]

RECURSIVE interpret(_, _, _)
interpret(self, struct, val) ==
    CASE self.cls = "Variable" ->
            IF self \in DOMAIN val THEN Return(val[self])
            ELSE Raise("AssertionError")
      [] self.cls = "Application" ->
            LET arguments == Collect([i \in DOMAIN self.arguments |->
                                interpret(self.arguments[i], struct, val)])
            IN  IF arguments.raised THEN arguments
                ELSE Return(interpret_function(struct, self.function_symbol,
                                               arguments.value))
      [] self.cls = "Verum" -> Return(TRUE)
      [] self.cls = "Falsum" -> Return(FALSE)
      [] self.cls = "RelationApplication" ->
            LET arguments == Collect([i \in DOMAIN self.arguments |->
                                interpret(self.arguments[i], struct, val)])
            IN  IF arguments.raised THEN arguments
                ELSE Return(interpret_relation(struct, self.relation_symbol,
                                               arguments.value))
      [] self.cls \in BinaryClasses ->
            LET both == Collect(<<interpret(self.left, struct, val),
                                  interpret(self.right, struct, val)>>)
                l == both.value[1]
                r == both.value[2]
            IN  IF both.raised THEN both
                ELSE Return(CASE self.cls = "Conjunction" -> l /\ r
                              [] self.cls = "Disjunction" -> l \/ r
                              [] self.cls = "Implication" -> l => r
                              [] self.cls = "Equivalence" -> l <=> r)
      [] self.cls = "Negation" ->
            LET inner == interpret(self.formula, struct, val)
            IN  IF inner.raised THEN inner ELSE Return(~inner.value)
      [] self.cls \in QuantifierClasses ->
            LET carrier == interpret_sort(struct, self.variable.sort)
                bind(a) == extend_valuation(val, self.variable, a)
                interp(a) == interpret(self.body, struct, bind(a))
            IN  IF \E a \in carrier : interp(a).raised
                THEN interp(CHOOSE a \in carrier : interp(a).raised)
                ELSE IF self.cls = "UniversalQuantification"
                     THEN Return(\A a \in carrier : interp(a).value)
                     ELSE Return(\E a \in carrier : interp(a).value)

(***************************************************************************)
(* The inputs of the syntax machine.                                       *)
(***************************************************************************)
var_x == Variable("x", sort_world)
var_y == Variable("y", sort_world)

SyntaxVariables == {var_x, var_y}

SyntaxTerms ==
    {var_x, var_y, Application(c_symbol, <<>>),
     Application(f_symbol, <<var_x>>), Application(f_symbol, <<var_y>>)}

InitialAtoms ==
    {RelationApplication(p_symbol, <<var_x>>),
     RelationApplication(p_symbol, <<var_y>>),
     RelationApplication(transition_symbol, <<var_x, var_y>>),
     RelationApplication(transition_symbol, <<var_y, var_x>>),
     RelationApplication(transition_symbol, <<Application(f_symbol, <<var_x>>), var_y>>),
     Verum}

RightOperand == RelationApplication(transition_symbol, <<var_x, var_y>>)

Substitutions ==
    UNION {[dom -> SyntaxTerms] : dom \in (SUBSET SyntaxVariables) \ {{}}}

Carrier == 0 .. (MaxCarrier - 1)

Structures ==
    {[carriers |-> [n \in {"W"} |-> Carrier],
      functions |-> [n \in {"c", "f"} |->
                        IF n = "c" THEN [a \in {<<>>} |-> 0]
                        ELSE [a \in {<<b>> : b \in Carrier} |-> fn[a[1]]]],
      relations |-> [n \in {"R", "P"} |->
                        IF n = "R" THEN r ELSE {<<0>>}]] :
        fn \in {[b \in Carrier |-> b], [b \in Carrier |-> (b + 1) % MaxCarrier]},
        r \in {{<<b, b>> : b \in Carrier}, {<<0, b>> : b \in Carrier}}}

Valuations == [SyntaxVariables -> Carrier]

\* the variables of a machine that does not run
SyntaxIdle ==
    /\ e = None /\ e0 = None /\ sigma = None /\ structure = None
    /\ valuation = None /\ lhs = None /\ rhs = None /\ spc = "idle" /\ built = 0

LanguageIdle ==
    /\ lang_self = None /\ lang_other = None /\ lang_result = None /\ lpc = "idle"

TemplateIdle ==
    /\ tmpl = None /\ cur = None /\ sigmas = <<>> /\ fresh = 0 /\ assertion = None
    /\ solver_model = <<>> /\ candidate = None /\ orig_candidate = None /\ eq = None /\ tpc = "idle"

DriverIdle ==
    /\ formula_template = {} /\ trivial_model = None /\ goal_model = None
    /\ solver1 = <<>> /\ solver2 = <<>> /\ cand = None /\ true_formulas = <<>>
    /\ proposed = <<>> /\ rejected = <<>> /\ dpc = "idle"
    /\ complement_theory = None /\ complement_structure = None

EnumerateIdle == generator = None /\ yielded = <<>>

(***************************************************************************)
(* The syntax machine: a formula is built by the constructors, then        *)
(* substituted into, then both sides of the substitution lemma are         *)
(* interpreted in a finite structure.                                      *)
(***************************************************************************)
SyntaxInit ==
    /\ e \in InitialAtoms
    /\ e0 = None
    /\ sigma = None
    /\ structure = None
    /\ valuation = None
    /\ lhs = None
    /\ rhs = None
    /\ spc = "build"
    /\ built = 0
    /\ LanguageIdle
    /\ TemplateIdle
    /\ DriverIdle
    /\ EnumerateIdle

MkNegation ==
    /\ spc = "build" /\ built < MaxBuild
    /\ e' = Negation(e)
    /\ built' = built + 1
    /\ UNCHANGED <<e0, sigma, structure, valuation, lhs, rhs, spc, lvars, tvars, dvars, gvars>>

MkBinary ==
    /\ spc = "build" /\ built < MaxBuild
    /\ \E cls \in BinaryClasses :
            e' = [cls |-> cls, left |-> e, right |-> RightOperand]
    /\ built' = built + 1
    /\ UNCHANGED <<e0, sigma, structure, valuation, lhs, rhs, spc, lvars, tvars, dvars, gvars>>

MkUniversalQuantification ==
    /\ spc = "build" /\ built < MaxBuild
    /\ \E v \in SyntaxVariables : e' = UniversalQuantification(v, e)
    /\ built' = built + 1
    /\ UNCHANGED <<e0, sigma, structure, valuation, lhs, rhs, spc, lvars, tvars, dvars, gvars>>

MkExistentialQuantification ==
    /\ spc = "build" /\ built < MaxBuild
    /\ \E v \in SyntaxVariables : e' = ExistentialQuantification(v, e)
    /\ built' = built + 1
    /\ UNCHANGED <<e0, sigma, structure, valuation, lhs, rhs, spc, lvars, tvars, dvars, gvars>>

Substitute ==
    /\ spc = "build"
    /\ \E s \in Substitutions :
            /\ sigma' = s
            /\ e' = substitute(e, s)
    /\ e0' = e
    /\ spc' = "substituted"
    /\ UNCHANGED <<structure, valuation, lhs, rhs, built, lvars, tvars, dvars, gvars>>

\* V o sigma: v is valued as sigma(v) is interpreted under V
ComposedValuation(struct, val, s) ==
    [v \in DOMAIN val \cup DOMAIN s |->
        IF v \in DOMAIN s THEN interpret(s[v], struct, val).value ELSE val[v]]

Interpret ==
    /\ spc = "substituted"
    /\ \E struct \in Structures, val \in Valuations :
            /\ structure' = struct
            /\ valuation' = val
            /\ lhs' = interpret(e, struct, val)
            /\ rhs' = interpret(e0, struct, ComposedValuation(struct, val, sigma))
    /\ spc' = "interpreted"
    /\ UNCHANGED <<e, e0, sigma, built, lvars, tvars, dvars, gvars>>

SyntaxNext ==
    \/ MkNegation
    \/ MkBinary
    \/ MkUniversalQuantification
    \/ MkExistentialQuantification
    \/ Substitute
    \/ Interpret

SpecSyntax == SyntaxInit /\ [][SyntaxNext]_vars

(***************************************************************************)
(* Claims about the first-order syntax.                                    *)
(***************************************************************************)

\* the position-wise reading of capture: r is the result of substituting s
\* into t; at a free occurrence of v in dom(s) the inserted term has a free
\* variable that a quantifier of r enclosing that position binds
RECURSIVE Captured(_, _, _, _)
Captured(t, r, s, bound) ==
    CASE t.cls = "Variable" ->
            /\ t \in DOMAIN s
            /\ t \notin bound
            /\ get_free_variables(r) \cap bound # {}
      [] t.cls \in {"Application", "RelationApplication"} ->
            \E i \in DOMAIN t.arguments :
                Captured(t.arguments[i], r.arguments[i], s, bound)
      [] t.cls \in {"Verum", "Falsum"} -> FALSE
      [] t.cls \in BinaryClasses ->
            Captured(t.left, r.left, s, bound) \/ Captured(t.right, r.right, s, bound)
      [] t.cls = "Negation" -> Captured(t.formula, r.formula, s, bound)
      [] t.cls \in QuantifierClasses ->
            Captured(t.body, r.body, s, bound \cup {r.variable})

\* C2: substitution never captures: every variable free in an inserted
\* sigma(v) is still free at that position of e.substitute(sigma).
C2_NoCapture ==
    spc = "substituted" => ~Captured(e0, e, sigma, {})

\* C3: the free variables of e.substitute(sigma) are FV(e) minus dom(sigma)
\* together with the free variables of sigma(v) for v in FV(e) and dom(sigma).
C3_FreeVariables ==
    spc = "substituted" =>
        get_free_variables(e) =
            (get_free_variables(e0) \ DOMAIN sigma)
            \cup UNION {get_free_variables(sigma[v]) :
                            v \in get_free_variables(e0) \cap DOMAIN sigma}

\* C4: interpreting e.substitute(sigma) under V gives the value of
\* interpreting e under V o sigma.
C4_SubstitutionLemma ==
    spc = "interpreted" => lhs = rhs

(***************************************************************************)
(* language.py: Language.expand.  "x not in tuple" compares the frozen     *)
(* dataclasses field by field (name, sorts and hook).                      *)
(***************************************************************************)
\* the mutant of expand that forgets the loop over the relation symbols
expand_unchecked_relations(self, other) ==
    IF \E i \in DOMAIN other.sorts : In(other.sorts[i], self.sorts)
    THEN Raise("AssertionError")
    ELSE IF \E i \in DOMAIN other.function_symbols :
                In(other.function_symbols[i], self.function_symbols)
    THEN Raise("AssertionError")
    ELSE Return(Language(self.sorts \o other.sorts,
                         self.function_symbols \o other.function_symbols,
                         self.relation_symbols \o other.relation_symbols))

expand(self, other) ==
    IF \E i \in DOMAIN other.sorts : In(other.sorts[i], self.sorts)
    THEN Raise("AssertionError")
    ELSE IF \E i \in DOMAIN other.function_symbols :
                In(other.function_symbols[i], self.function_symbols)
    THEN Raise("AssertionError")
    ELSE IF \E i \in DOMAIN other.relation_symbols :
                In(other.relation_symbols[i], self.relation_symbols)
    THEN Raise("AssertionError")
    ELSE Return(Language(self.sorts \o other.sorts,
                         self.function_symbols \o other.function_symbols,
                         self.relation_symbols \o other.relation_symbols))

(***************************************************************************)
(* The language machine: two languages are declared and one is expanded    *)
(* by the other.                                                           *)
(***************************************************************************)
\* a sort named W that carries a backend hook, and a symbol named f of
\* another signature
sort_world_hooked == [name |-> "W", smt_hook |-> "Int"]
f_binary_symbol == FunctionSymbol(<<sort_world, sort_world>>, sort_world, "f")

Languages ==
    {Language(sorts, function_symbols, relation_symbols) :
        sorts \in {<<>>, <<sort_world>>, <<sort_U>>, <<sort_world, sort_U>>,
                   <<sort_world_hooked>>},
        function_symbols \in {<<>>, <<c_symbol>>, <<f_symbol>>,
                              <<c_symbol, f_symbol>>, <<f_binary_symbol>>},
        relation_symbols \in {<<>>, <<transition_symbol>>, <<p_symbol>>,
                              <<transition_symbol, p_symbol>>}}

LanguageInit ==
    /\ lang_self \in Languages
    /\ lang_other \in Languages
    /\ lang_result = None
    /\ lpc = "declared"
    /\ SyntaxIdle
    /\ TemplateIdle
    /\ DriverIdle
    /\ EnumerateIdle

Expand ==
    /\ lpc = "declared"
    /\ lang_result' = expand(lang_self, lang_other)
    /\ lpc' = "expanded"
    /\ UNCHANGED <<lang_self, lang_other, svars, tvars, dvars, gvars>>

\* the driver goes on with the expanded language
ExpandAgain ==
    /\ lpc = "expanded"
    /\ ~lang_result.raised
    /\ Len(lang_result.value.sorts) <= 1
    /\ lang_self' = lang_result.value
    /\ lang_result' = None
    /\ lpc' = "declared"
    /\ UNCHANGED <<lang_other, svars, tvars, dvars, gvars>>

LanguageNext ==
    \/ Expand
    \/ ExpandAgain

SpecLanguage == LanguageInit /\ [][LanguageNext]_vars

(***************************************************************************)
(* Claims about languages.                                                 *)
(***************************************************************************)
\* other declares a sort or a symbol that self declares too
Collides(self, other) ==
    \/ \E i \in DOMAIN self.sorts, j \in DOMAIN other.sorts :
            self.sorts[i] = other.sorts[j]
    \/ \E i \in DOMAIN self.function_symbols, j \in DOMAIN other.function_symbols :
            self.function_symbols[i] = other.function_symbols[j]
    \/ \E i \in DOMAIN self.relation_symbols, j \in DOMAIN other.relation_symbols :
            self.relation_symbols[i] = other.relation_symbols[j]

smt_TRUE == [op |-> "TRUE"]

smt_FALSE == [op |-> "FALSE"]

smt_And(args) == [op |-> "And", args |-> args]

smt_Or(args) == [op |-> "Or", args |-> args]

BoundedIntegerVariable(lower, upper, symbol) ==
    [symbol |-> symbol, lower |-> lower, upper |-> upper]

BoundedIntegerVariable_equals(self, value) ==
    [op |-> "Equals", symbol |-> self.symbol, value |-> value]

BoundedIntegerVariable_get_constraint(self) ==
    [op |-> "InRange", symbol |-> self.symbol, lower |-> self.lower, upper |-> self.upper]

BoundedIntegerVariable_get_from_smt_model(self, model) == model[self.symbol]

Truth(b) == IF b THEN "T" ELSE "F"

RECURSIVE Eval(_, _)
RECURSIVE EvalAnd(_, _, _)
RECURSIVE EvalOr(_, _, _)
Eval(term, model) ==
    CASE term.op = "TRUE" -> "T"
      [] term.op = "FALSE" -> "F"
      [] term.op = "Equals" ->
            IF term.symbol \in DOMAIN model
            THEN Truth(model[term.symbol] = term.value) ELSE "U"
      [] term.op = "InRange" ->
            IF term.symbol \in DOMAIN model
            THEN Truth(term.lower <= model[term.symbol]
                       /\ model[term.symbol] <= term.upper)
            ELSE "U"
      [] term.op = "And" -> EvalAnd(term.args, 1, model)
      [] term.op = "Or" -> EvalOr(term.args, 1, model)

EvalAnd(args, i, model) ==
    IF i > Len(args) THEN "T"
    ELSE LET first == Eval(args[i], model)
         IN  IF first = "F" THEN "F"
             ELSE LET rest == EvalAnd(args, i + 1, model)
                  IN  IF rest = "F" THEN "F"
                      ELSE IF first = "U" THEN "U" ELSE rest

EvalOr(args, i, model) ==
    IF i > Len(args) THEN "F"
    ELSE LET first == Eval(args[i], model)
         IN  IF first = "T" THEN "T"
             ELSE LET rest == EvalOr(args, i + 1, model)
                  IN  IF rest = "T" THEN "T"
                      ELSE IF first = "U" THEN "U" ELSE rest

(***************************************************************************)
(* Python tuples: slices, zip and indexing (a negative index counts from   *)
(* the end, an index out of range raises IndexError).                      *)
(***************************************************************************)
Min(a, b) == IF a <= b THEN a ELSE b

\* t[:n]
Prefix(t, n) == SubSeq(t, 1, Min(n, Len(t)))

\* t[n:]
Suffix(t, n) == SubSeq(t, n + 1, Len(t))

\* t[i], with Python's zero-based index
Index(t, i) ==
    IF 0 <= i /\ i < Len(t) THEN Return(t[i + 1])
    ELSE IF i < 0 /\ -i <= Len(t) THEN Return(t[Len(t) + i + 1])
    ELSE Raise("IndexError")

\* max(tuple(len(symbol.input_sorts) for symbol in symbols) + (0,))
MaxArity(symbols) ==
    LET arities == {Len(symbols[i].input_sorts) : i \in DOMAIN symbols} \cup {0}
    IN  CHOOSE a \in arities : \A b \in arities : b <= a

get_max_function_arity(language) == MaxArity(language.function_symbols)

get_max_relation_arity(language) == MaxArity(language.relation_symbols)

(***************************************************************************)
(* syntax.py: get_constraint, get_from_smt_model and equals of the         *)
(* concrete classes                                                        *)
(***************************************************************************)
RECURSIVE Term_get_constraint(_)
RECURSIVE TermTemplate_get_constraint(_)
RECURSIVE TermTemplate_get_from_smt_model(_, _)
\* term.get_constraint(), dispatched on the class of the term
Term_get_constraint(self) ==
    CASE self.cls = "Variable" -> smt_TRUE
      [] self.cls = "Application" ->
            smt_And([i \in DOMAIN self.arguments |->
                        Term_get_constraint(self.arguments[i])])
      [] self.cls = "TermTemplate" -> TermTemplate_get_constraint(self)

\* term.get_from_smt_model(model), dispatched on the class of the term:
\* Variable and Application return themselves
Term_get_from_smt_model(self, model) ==
    CASE self.cls \in {"Variable", "Application"} -> Return(self)
      [] self.cls = "TermTemplate" -> TermTemplate_get_from_smt_model(self, model)

\* RelationApplication.get_constraint
RelationApplication_get_constraint(self) ==
    smt_And([i \in DOMAIN self.arguments |-> Term_get_constraint(self.arguments[i])])

\* RelationApplication.get_from_smt_model
RelationApplication_get_from_smt_model(self, model) ==
    LET arguments == Collect([i \in DOMAIN self.arguments |->
                                Term_get_from_smt_model(self.arguments[i], model)])
    IN  IF arguments.raised THEN arguments
        ELSE Return(RelationApplication(self.relation_symbol, arguments.value))

\* Term.equals is not overridden by Variable and Application
Term_equals(self, value) == Raise("NotImplementedError")

(***************************************************************************)
(* templates/formula.py: TermTemplate.  The constructor draws its control  *)
(* variables from the backend's supply of fresh symbols: base is the       *)
(* number of symbols drawn before the call.                                *)
(***************************************************************************)
RECURSIVE TermTemplateSymbols(_, _)
\* the number of control variables a TermTemplate constructor allocates
TermTemplateSymbols(language, depth) ==
    1 + (IF depth # 0
         THEN get_max_function_arity(language) * TermTemplateSymbols(language, depth - 1)
         ELSE 0)

RECURSIVE TermTemplate(_, _, _, _, _)
TermTemplate(language, free_vars, depth, sort, base) ==
    [cls |-> "TermTemplate",
     language |-> language,
     free_vars |-> free_vars,
     depth |-> depth,
     sort |-> sort,
     substitution |-> [var \in {free_vars[i] : i \in DOMAIN free_vars} |-> var],
     node |-> BoundedIntegerVariable(0, Len(free_vars) + Len(language.function_symbols),
                                     base + 1),
     subterms |->
        IF depth # 0
        THEN [i \in 1 .. get_max_function_arity(language) |->
                TermTemplate(language, free_vars, depth - 1, None,
                    base + 1 + (i - 1) * TermTemplateSymbols(language, depth - 1))]
        ELSE <<>>]

RECURSIVE TermTemplateSubstituteSymbols(_)
\* the number of control variables TermTemplate.substitute allocates: the
\* constructor call of every node of the tree
TermTemplateSubstituteSymbols(self) ==
    TermTemplateSymbols(self.language, self.depth)
    + (IF self.subterms = <<>> THEN 0
       ELSE Len(self.subterms) * TermTemplateSubstituteSymbols(self.subterms[1]))

RECURSIVE TermTemplate_substitute_fresh_node(_, _, _)
RECURSIVE TermTemplate_substitute(_, _, _)
\* the mutant of substitute that keeps the node of the new template
TermTemplate_substitute_fresh_node(self, substitution, base) ==
    LET new_template == TermTemplate(self.language, self.free_vars, self.depth,
                                     self.sort, base)
        after == base + TermTemplateSymbols(self.language, self.depth)
    IN  [new_template EXCEPT
            !.substitution = [k \in DOMAIN self.substitution |->
                                substitute(self.substitution[k], substitution)],
            !.subterms = [i \in DOMAIN self.subterms |->
                TermTemplate_substitute(self.subterms[i], substitution,
                    after + (i - 1) * TermTemplateSubstituteSymbols(self.subterms[i]))]]

\* the mutant of substitute that leaves the subterms as they are
TermTemplate_substitute_root_only(self, substitution, base) ==
    LET new_template == TermTemplate(self.language, self.free_vars, self.depth,
                                     self.sort, base)
    IN  [new_template EXCEPT
            !.node = self.node,
            !.substitution = [k \in DOMAIN self.substitution |->
                                substitute(self.substitution[k], substitution)],
            !.subterms = self.subterms]

TermTemplate_substitute(self, substitution, base) ==
    LET new_template == TermTemplate(self.language, self.free_vars, self.depth,
                                     self.sort, base)
        after == base + TermTemplateSymbols(self.language, self.depth)
    IN  [new_template EXCEPT
            !.node = self.node,
            !.substitution = [k \in DOMAIN self.substitution |->
                                substitute(self.substitution[k], substitution)],
            !.subterms = [i \in DOMAIN self.subterms |->
                TermTemplate_substitute(self.subterms[i], substitution,
                    after + (i - 1) * TermTemplateSubstituteSymbols(self.subterms[i]))]]

RECURSIVE TermTemplate_get_is_null_constraint(_)
TermTemplate_get_is_null_constraint(self) ==
    smt_And(<<BoundedIntegerVariable_equals(self.node, 0)>>
            \o [i \in DOMAIN self.subterms |->
                    TermTemplate_get_is_null_constraint(self.subterms[i])])

RECURSIVE TermTemplate_get_well_formedness_constraint(_, _)
RECURSIVE TermTemplate_well_formedness_loop(_, _, _)
RECURSIVE TermTemplate_well_formedness_loop_any_sort(_, _, _)

\* the mutant of the loop that does not compare the output sort of a symbol
TermTemplate_well_formedness_loop_any_sort(self, sort, node_value) ==
    IF node_value = 0 THEN smt_FALSE
    ELSE
    LET constraint == TermTemplate_well_formedness_loop(self, sort, node_value - 1)
    IN  IF node_value <= Len(self.free_vars)
        THEN LET variable == self.free_vars[node_value]
             IN  IF variable.sort = sort
                 THEN smt_Or(<<
                        smt_And(<<BoundedIntegerVariable_equals(self.node, node_value),
                                  Term_get_constraint(self.substitution[variable])>>
                                \o [i \in DOMAIN self.subterms |->
                                     TermTemplate_get_is_null_constraint(self.subterms[i])]),
                        constraint>>)
                 ELSE constraint
        ELSE LET symbol == self.language.function_symbols[node_value - Len(self.free_vars)]
                 arity == Len(symbol.input_sorts)
                 used == Prefix(self.subterms, arity)
                 unused == Suffix(self.subterms, arity)
             IN  IF self.depth # 0 \/ arity = 0
                 THEN smt_Or(<<
                        smt_And(<<BoundedIntegerVariable_equals(self.node, node_value)>>
                                \o [i \in 1 .. Min(arity, Len(used)) |->
                                     TermTemplate_get_well_formedness_constraint(
                                        used[i], symbol.input_sorts[i])]
                                \o [i \in DOMAIN unused |->
                                     TermTemplate_get_is_null_constraint(unused[i])]),
                        constraint>>)
                 ELSE constraint

\* the value of the variable constraint after the iterations
\* 1 .. node_value of the loop of get_well_formedness_constraint
TermTemplate_well_formedness_loop(self, sort, node_value) ==
    IF node_value = 0 THEN smt_FALSE
    ELSE
    LET constraint == TermTemplate_well_formedness_loop(self, sort, node_value - 1)
    IN  IF node_value <= Len(self.free_vars)
        THEN LET variable == self.free_vars[node_value]
             IN  IF variable.sort = sort
                 THEN smt_Or(<<
                        smt_And(<<BoundedIntegerVariable_equals(self.node, node_value),
                                  Term_get_constraint(self.substitution[variable])>>
                                \o [i \in DOMAIN self.subterms |->
                                     TermTemplate_get_is_null_constraint(self.subterms[i])]),
                        constraint>>)
                 ELSE constraint
        ELSE LET symbol == self.language.function_symbols[node_value - Len(self.free_vars)]
                 arity == Len(symbol.input_sorts)
                 used == Prefix(self.subterms, arity)
                 unused == Suffix(self.subterms, arity)
             IN  IF symbol.output_sort = sort /\ (self.depth # 0 \/ arity = 0)
                 THEN smt_Or(<<
                        smt_And(<<BoundedIntegerVariable_equals(self.node, node_value)>>
                                \o [i \in 1 .. Min(arity, Len(used)) |->
                                     TermTemplate_get_well_formedness_constraint(
                                        used[i], symbol.input_sorts[i])]
                                \o [i \in DOMAIN unused |->
                                     TermTemplate_get_is_null_constraint(unused[i])]),
                        constraint>>)
                 ELSE constraint

TermTemplate_get_well_formedness_constraint(self, sort) ==
    smt_And(<<TermTemplate_well_formedness_loop(
                self, sort, Len(self.free_vars) + Len(self.language.function_symbols)),
              BoundedIntegerVariable_get_constraint(self.node)>>)

TermTemplate_get_constraint(self) ==
    IF self.sort = None
    THEN smt_Or([i \in DOMAIN self.language.sorts |->
                    TermTemplate_get_well_formedness_constraint(
                        self, self.language.sorts[i])])
    ELSE TermTemplate_get_well_formedness_constraint(self, self.sort)

TermTemplate_get_from_smt_model(self, model) ==
    LET node_value == BoundedIntegerVariable_get_from_smt_model(self.node, model)
    IN  IF node_value = 0 THEN Raise("AssertionError")
        ELSE IF node_value <= Len(self.free_vars)
        THEN \* node_value - 1 may be negative: Python then counts from the end
             LET variable == Index(self.free_vars, node_value - 1)
             IN  IF variable.raised THEN variable
                 ELSE Term_get_from_smt_model(self.substitution[variable.value], model)
        ELSE LET symbol == Index(self.language.function_symbols,
                                 node_value - Len(self.free_vars) - 1)
             IN  IF symbol.raised THEN symbol
                 ELSE
                 LET arity == Len(symbol.value.input_sorts)
                     used == Prefix(self.subterms, arity)
                     arguments == Collect([i \in DOMAIN used |->
                                    TermTemplate_get_from_smt_model(used[i], model)])
                 IN  IF arguments.raised THEN arguments
                     ELSE Return(Application(symbol.value, arguments.value))

RECURSIVE TermTemplate_equals(_, _)
RECURSIVE TermTemplate_equals_loop(_, _, _)
\* the value of the variable constraint after the iterations 1 .. node_value
\* of the loop of equals, or the exception an iteration raised
TermTemplate_equals_loop(self, value, node_value) ==
    IF node_value = 0 THEN Return(smt_FALSE)
    ELSE
    LET constraint == TermTemplate_equals_loop(self, value, node_value - 1)
    IN  IF constraint.raised THEN constraint
        ELSE IF node_value <= Len(self.free_vars)
        THEN LET variable == self.free_vars[node_value]
                 same == Term_equals(self.substitution[variable], value)
             IN  IF same.raised THEN same
                 ELSE Return(smt_Or(<<
                        smt_And(<<BoundedIntegerVariable_equals(self.node, node_value),
                                  same.value>>),
                        constraint.value>>))
        ELSE IF value.cls = "Application"
        THEN LET symbol == self.language.function_symbols[node_value - Len(self.free_vars)]
                 arity == Len(symbol.input_sorts)
                 used == Prefix(self.subterms, arity)
                 pairs == Min(Len(value.arguments), Len(used))
             IN  IF value.function_symbol = symbol /\ (self.depth # 0 \/ arity = 0)
                 THEN IF Len(value.arguments) # arity THEN Raise("AssertionError")
                      ELSE
                      LET same == Collect([i \in 1 .. pairs |->
                                    TermTemplate_equals(used[i], value.arguments[i])])
                      IN  IF same.raised THEN same
                          ELSE Return(smt_Or(<<
                                smt_And(<<BoundedIntegerVariable_equals(self.node, node_value)>>
                                        \o same.value),
                                constraint.value>>))
                 ELSE constraint
        ELSE constraint

TermTemplate_equals(self, value) ==
    TermTemplate_equals_loop(self, value,
        Len(self.free_vars) + Len(self.language.function_symbols))

(***************************************************************************)
(* templates/formula.py: AtomicFormulaTemplate                             *)
(***************************************************************************)
AtomicFormulaTemplateSymbols(language, term_depth) ==
    1 + get_max_relation_arity(language) * TermTemplateSymbols(language, term_depth)

AtomicFormulaTemplate(language, free_vars, term_depth, allow_constant, base) ==
    [cls |-> "AtomicFormulaTemplate",
     language |-> language,
     term_depth |-> term_depth,
     allow_constant |-> allow_constant,
     node |-> BoundedIntegerVariable(0, 3 + Len(language.relation_symbols), base + 1),
     subterms |->
        [i \in 1 .. get_max_relation_arity(language) |->
            TermTemplate(language, free_vars, term_depth, None,
                base + 1 + (i - 1) * TermTemplateSymbols(language, term_depth))]]

AtomicFormulaTemplateSubstituteSymbols(self) ==
    AtomicFormulaTemplateSymbols(self.language, self.term_depth)
    + (IF self.subterms = <<>> THEN 0
       ELSE Len(self.subterms) * TermTemplateSubstituteSymbols(self.subterms[1]))

AtomicFormulaTemplate_substitute(self, substitution, base) ==
    LET new_formula == AtomicFormulaTemplate(self.language, <<>>, self.term_depth,
                                             self.allow_constant, base)
        after == base + AtomicFormulaTemplateSymbols(self.language, self.term_depth)
    IN  [new_formula EXCEPT
            !.node = self.node,
            !.subterms = [i \in DOMAIN self.subterms |->
                TermTemplate_substitute(self.subterms[i], substitution,
                    after + (i - 1) * TermTemplateSubstituteSymbols(self.subterms[i]))]]

AtomicFormulaTemplate_get_is_null_constraint(self) ==
    smt_And(<<BoundedIntegerVariable_equals(self.node, 0)>>
            \o [i \in DOMAIN self.subterms |->
                    TermTemplate_get_is_null_constraint(self.subterms[i])])

RECURSIVE AtomicFormulaTemplate_well_formedness_loop(_, _)

\* the mutant of the loop that admits Falsum and Verum whatever allow_constant
AtomicFormulaTemplate_well_formedness_loop_constants(self, node_value) ==
    IF node_value = 0 THEN smt_FALSE
    ELSE
    LET constraint == AtomicFormulaTemplate_well_formedness_loop(self, node_value - 1)
    IN  IF node_value = 1 \/ node_value = 2
        THEN smt_Or(<<
                smt_And(<<BoundedIntegerVariable_equals(self.node, node_value)>>
                        \o [i \in DOMAIN self.subterms |->
                             TermTemplate_get_is_null_constraint(self.subterms[i])]),
                constraint>>)
        ELSE LET symbol == self.language.relation_symbols[node_value - 2]
                 arity == Len(symbol.input_sorts)
                 used == Prefix(self.subterms, arity)
                 unused == Suffix(self.subterms, arity)
             IN  smt_Or(<<
                    smt_And(<<BoundedIntegerVariable_equals(self.node, node_value)>>
                            \o [i \in 1 .. Min(arity, Len(used)) |->
                                 TermTemplate_get_well_formedness_constraint(
                                    used[i], symbol.input_sorts[i])]
                            \o [i \in DOMAIN unused |->
                                 TermTemplate_get_is_null_constraint(unused[i])]),
                    constraint>>)

\* the value of the variable constraint after the iterations
\* 1 .. node_value of the loop of get_well_formedness_constraint
AtomicFormulaTemplate_well_formedness_loop(self, node_value) ==
    IF node_value = 0 THEN smt_FALSE
    ELSE
    LET constraint == AtomicFormulaTemplate_well_formedness_loop(self, node_value - 1)
    IN  IF node_value = 1 \/ node_value = 2
        THEN IF self.allow_constant
             THEN smt_Or(<<
                    smt_And(<<BoundedIntegerVariable_equals(self.node, node_value)>>
                            \o [i \in DOMAIN self.subterms |->
                                 TermTemplate_get_is_null_constraint(self.subterms[i])]),
                    constraint>>)
             ELSE constraint
        ELSE LET symbol == self.language.relation_symbols[node_value - 2]
                 arity == Len(symbol.input_sorts)
                 used == Prefix(self.subterms, arity)
                 unused == Suffix(self.subterms, arity)
             IN  smt_Or(<<
                    smt_And(<<BoundedIntegerVariable_equals(self.node, node_value)>>
                            \o [i \in 1 .. Min(arity, Len(used)) |->
                                 TermTemplate_get_well_formedness_constraint(
                                    used[i], symbol.input_sorts[i])]
                            \o [i \in DOMAIN unused |->
                                 TermTemplate_get_is_null_constraint(unused[i])]),
                    constraint>>)

\* range(1, 3 + len(relation_symbols)) ends at 2 + len(relation_symbols)
AtomicFormulaTemplate_get_well_formedness_constraint(self) ==
    AtomicFormulaTemplate_well_formedness_loop(self,
        2 + Len(self.language.relation_symbols))

AtomicFormulaTemplate_get_constraint(self) ==
    AtomicFormulaTemplate_get_well_formedness_constraint(self)

AtomicFormulaTemplate_get_from_smt_model(self, model) ==
    LET node_value == BoundedIntegerVariable_get_from_smt_model(self.node, model)
    IN  IF node_value = 1 THEN Return(Falsum)
        ELSE IF node_value = 2 THEN Return(Verum)
        ELSE LET symbol == Index(self.language.relation_symbols, node_value - 3)
             IN  IF symbol.raised THEN symbol
                 ELSE
                 LET arity == Len(symbol.value.input_sorts)
                     used == Prefix(self.subterms, arity)
                     arguments == Collect([i \in DOMAIN used |->
                                    TermTemplate_get_from_smt_model(used[i], model)])
                 IN  IF arguments.raised THEN arguments
                     ELSE Return(RelationApplication(symbol.value, arguments.value))

AtomicFormulaTemplate_equals(self, value) ==
    IF value.cls = "Falsum" THEN Return(BoundedIntegerVariable_equals(self.node, 1))
    ELSE IF value.cls = "Verum" THEN Return(BoundedIntegerVariable_equals(self.node, 2))
    ELSE IF /\ value.cls = "RelationApplication"
            /\ In(value.relation_symbol, self.language.relation_symbols)
    THEN LET \* tuple.index: the zero-based position of the first occurrence
             symbol_index ==
                (CHOOSE i \in DOMAIN self.language.relation_symbols :
                    /\ self.language.relation_symbols[i] = value.relation_symbol
                    /\ \A j \in 1 .. (i - 1) :
                        self.language.relation_symbols[j] # value.relation_symbol) - 1
             arity == Len(value.relation_symbol.input_sorts)
             used == Prefix(self.subterms, arity)
             pairs == Min(Len(value.arguments), Len(used))
             same == Collect([i \in 1 .. pairs |->
                        TermTemplate_equals(used[i], value.arguments[i])])
         IN  IF same.raised THEN same
             ELSE Return(smt_And(
                    <<BoundedIntegerVariable_equals(self.node, symbol_index + 3)>>
                    \o same.value))
    ELSE Return(smt_FALSE)

(***************************************************************************)
(* templates/formula.py: QuantifierFreeFormulaTemplate                     *)
(***************************************************************************)
RECURSIVE QuantifierFreeFormulaTemplateSymbols(_, _, _)
QuantifierFreeFormulaTemplateSymbols(language, term_depth, formula_depth) ==
    1 + AtomicFormulaTemplateSymbols(language, term_depth)
    + (IF formula_depth = 0 THEN 0
       ELSE 2 * QuantifierFreeFormulaTemplateSymbols(language, term_depth,
                                                     formula_depth - 1))

RECURSIVE QuantifierFreeFormulaTemplate(_, _, _, _, _, _)
QuantifierFreeFormulaTemplate(language, free_vars, term_depth, formula_depth, allow_constant, base) ==
    [cls |-> "QuantifierFreeFormulaTemplate",
     language |-> language,
     term_depth |-> term_depth,
     formula_depth |-> formula_depth,
     node |-> BoundedIntegerVariable(0, 6, base + 1),
     atom |-> AtomicFormulaTemplate(language, free_vars, term_depth, allow_constant,
                                    base + 1),
     subformulas |->
        IF formula_depth = 0 THEN <<>>
        ELSE [i \in 1 .. 2 |->
                \* allow_constant is left at its default, False
                QuantifierFreeFormulaTemplate(language, free_vars, term_depth,
                    formula_depth - 1, FALSE,
                    base + 1 + AtomicFormulaTemplateSymbols(language, term_depth)
                    + (i - 1) * QuantifierFreeFormulaTemplateSymbols(
                                    language, term_depth, formula_depth - 1))]]

get_constructor_and_arity(node_value) ==
    CASE node_value = 2 -> Return([constructor |-> "Conjunction", arity |-> 2])
      [] node_value = 3 -> Return([constructor |-> "Disjunction", arity |-> 2])
      [] node_value = 4 -> Return([constructor |-> "Negation", arity |-> 1])
      [] node_value = 5 -> Return([constructor |-> "Implication", arity |-> 2])
      [] node_value = 6 -> Return([constructor |-> "Equivalence", arity |-> 2])
      [] OTHER -> Raise("KeyError")

RECURSIVE QuantifierFreeFormulaTemplateSubstituteSymbols(_)
QuantifierFreeFormulaTemplateSubstituteSymbols(self) ==
    QuantifierFreeFormulaTemplateSymbols(self.language, self.term_depth,
                                         self.formula_depth)
    + AtomicFormulaTemplateSubstituteSymbols(self.atom)
    + (IF self.subformulas = <<>> THEN 0
       ELSE Len(self.subformulas)
            * QuantifierFreeFormulaTemplateSubstituteSymbols(self.subformulas[1]))

RECURSIVE QuantifierFreeFormulaTemplate_substitute(_, _, _)
QuantifierFreeFormulaTemplate_substitute(self, substitution, base) ==
    LET new_formula == QuantifierFreeFormulaTemplate(self.language, <<>>,
                            self.term_depth, self.formula_depth, FALSE, base)
        after == base + QuantifierFreeFormulaTemplateSymbols(
                            self.language, self.term_depth, self.formula_depth)
        after_atom == after + AtomicFormulaTemplateSubstituteSymbols(self.atom)
    IN  [new_formula EXCEPT
            !.node = self.node,
            !.atom = AtomicFormulaTemplate_substitute(self.atom, substitution, after),
            !.subformulas = [i \in DOMAIN self.subformulas |->
                QuantifierFreeFormulaTemplate_substitute(self.subformulas[i],
                    substitution,
                    after_atom + (i - 1)
                        * QuantifierFreeFormulaTemplateSubstituteSymbols(
                                self.subformulas[i]))]]

RECURSIVE QuantifierFreeFormulaTemplate_get_is_null_constraint(_)
QuantifierFreeFormulaTemplate_get_is_null_constraint(self) ==
    smt_And(<<BoundedIntegerVariable_equals(self.node, 0),
              AtomicFormulaTemplate_get_is_null_constraint(self.atom)>>
            \o [i \in DOMAIN self.subformulas |->
                    QuantifierFreeFormulaTemplate_get_is_null_constraint(
                        self.subformulas[i])])

RECURSIVE QuantifierFreeFormulaTemplate_get_constraint(_)
RECURSIVE QuantifierFreeFormulaTemplate_constraint_loop(_, _)

\* the mutant of the loop that leaves the atom unconstrained under a connective
QuantifierFreeFormulaTemplate_constraint_loop_atom(self, node_value) ==
    IF node_value < self.node.lower THEN smt_FALSE
    ELSE
    LET constraint == QuantifierFreeFormulaTemplate_constraint_loop(self, node_value - 1)
    IN  IF node_value = 1
        THEN smt_Or(<<
                smt_And(<<BoundedIntegerVariable_equals(self.node, node_value),
                          AtomicFormulaTemplate_get_constraint(self.atom)>>
                        \o [i \in DOMAIN self.subformulas |->
                             QuantifierFreeFormulaTemplate_get_is_null_constraint(
                                self.subformulas[i])]),
                constraint>>)
        ELSE IF node_value # 0 /\ self.formula_depth # 0
        THEN LET arity == get_constructor_and_arity(node_value).value.arity
                 used == Prefix(self.subformulas, arity)
                 unused == Suffix(self.subformulas, arity)
             IN  smt_Or(<<
                    smt_And(<<BoundedIntegerVariable_equals(self.node, node_value)>>
                            \o [i \in DOMAIN used |->
                                 QuantifierFreeFormulaTemplate_get_constraint(used[i])]
                            \o [i \in DOMAIN unused |->
                                 QuantifierFreeFormulaTemplate_get_is_null_constraint(
                                    unused[i])]),
                    constraint>>)
        ELSE constraint

\* the value of the variable constraint after the iterations up to
\* node_value of the loop of get_constraint over node.get_range()
QuantifierFreeFormulaTemplate_constraint_loop(self, node_value) ==
    IF node_value < self.node.lower THEN smt_FALSE
    ELSE
    LET constraint == QuantifierFreeFormulaTemplate_constraint_loop(self, node_value - 1)
    IN  IF node_value = 1
        THEN smt_Or(<<
                smt_And(<<BoundedIntegerVariable_equals(self.node, node_value),
                          AtomicFormulaTemplate_get_constraint(self.atom)>>
                        \o [i \in DOMAIN self.subformulas |->
                             QuantifierFreeFormulaTemplate_get_is_null_constraint(
                                self.subformulas[i])]),
                constraint>>)
        ELSE IF node_value # 0 /\ self.formula_depth # 0
        THEN LET arity == get_constructor_and_arity(node_value).value.arity
                 used == Prefix(self.subformulas, arity)
                 unused == Suffix(self.subformulas, arity)
             IN  smt_Or(<<
                    smt_And(<<BoundedIntegerVariable_equals(self.node, node_value),
                              AtomicFormulaTemplate_get_is_null_constraint(self.atom)>>
                            \o [i \in DOMAIN used |->
                                 QuantifierFreeFormulaTemplate_get_constraint(used[i])]
                            \o [i \in DOMAIN unused |->
                                 QuantifierFreeFormulaTemplate_get_is_null_constraint(
                                    unused[i])]),
                    constraint>>)
        ELSE constraint

QuantifierFreeFormulaTemplate_get_constraint(self) ==
    QuantifierFreeFormulaTemplate_constraint_loop(self, self.node.upper)

RECURSIVE QuantifierFreeFormulaTemplate_get_from_smt_model(_, _)
QuantifierFreeFormulaTemplate_get_from_smt_model(self, model) ==
    LET node_value == BoundedIntegerVariable_get_from_smt_model(self.node, model)
    IN  IF node_value = 0 THEN Raise("AssertionError")
        ELSE IF node_value = 1
        THEN AtomicFormulaTemplate_get_from_smt_model(self.atom, model)
        ELSE IF self.formula_depth # 0
        THEN LET found == get_constructor_and_arity(node_value)
             IN  IF found.raised THEN found
                 ELSE
                 LET used == Prefix(self.subformulas, found.value.arity)
                     arguments == Collect([i \in DOMAIN used |->
                        QuantifierFreeFormulaTemplate_get_from_smt_model(used[i], model)])
                 IN  IF arguments.raised THEN arguments
                     ELSE IF found.value.constructor = "Negation"
                     THEN Return(Negation(arguments.value[1]))
                     ELSE Return([cls |-> found.value.constructor,
                                  left |-> arguments.value[1],
                                  right |-> arguments.value[2]])
        ELSE Raise("AssertionError")

RECURSIVE QuantifierFreeFormulaTemplate_equals(_, _)
QuantifierFreeFormulaTemplate_equals(self, value) ==
    IF value.cls \in {"Falsum", "Verum", "RelationApplication", "Equality"}
    THEN AtomicFormulaTemplate_equals(self.atom, value)
    ELSE IF self.formula_depth = 0 THEN Return(smt_FALSE)
    ELSE IF value.cls \in BinaryClasses
    THEN LET tag == CASE value.cls = "Conjunction" -> 2
                      [] value.cls = "Disjunction" -> 3
                      [] value.cls = "Implication" -> 5
                      [] value.cls = "Equivalence" -> 6
             same == Collect(<<
                        QuantifierFreeFormulaTemplate_equals(self.subformulas[1], value.left),
                        QuantifierFreeFormulaTemplate_equals(self.subformulas[2], value.right)>>)
         IN  IF same.raised THEN same
             ELSE Return(smt_And(<<BoundedIntegerVariable_equals(self.node, tag)>>
                                 \o same.value))
    ELSE IF value.cls = "Negation"
    THEN LET same == QuantifierFreeFormulaTemplate_equals(self.subformulas[1],
                                                          value.formula)
         IN  IF same.raised THEN same
             ELSE Return(smt_And(<<BoundedIntegerVariable_equals(self.node, 4),
                                   same.value>>))
    ELSE Return(smt_FALSE)

(***************************************************************************)
(* UnionTemplate (section 4.4 of the specification) and its two            *)
(* subclasses of templates/formula.py: a tagged choice over alternative    *)
(* templates.  The constructor receives the templates, built before it,    *)
(* and draws the choice tag, with the values 1 .. len(templates).          *)
(***************************************************************************)
RECURSIVE Template_substitute(_, _, _)
RECURSIVE Template_get_constraint(_)
RECURSIVE Template_get_from_smt_model(_, _)
RECURSIVE TemplateSubstituteSymbols(_)

UnionTemplate(cls, templates, base) ==
    [cls |-> cls,
     templates |-> templates,
     node |-> BoundedIntegerVariable(1, Len(templates), base + 1)]

\* pick one child and satisfy its constraint, the others are unconstrained
UnionTemplate_get_constraint(self) ==
    smt_Or([node_value \in DOMAIN self.templates |->
                smt_And(<<BoundedIntegerVariable_equals(self.node, node_value),
                          Template_get_constraint(self.templates[node_value])>>)])

\* the value of the child the tag selects
UnionTemplate_get_from_smt_model(self, model) ==
    LET node_value == BoundedIntegerVariable_get_from_smt_model(self.node, model)
        template == Index(self.templates, node_value - 1)
    IN  IF template.raised THEN template
        ELSE Template_get_from_smt_model(template.value, model)

\* the control variables drawn by the substitute calls on the first
\* templates of a tuple
RECURSIVE SubstituteSymbolsOf(_, _)
SubstituteSymbolsOf(templates, count) ==
    IF count = 0 THEN 0
    ELSE SubstituteSymbolsOf(templates, count - 1)
         + TemplateSubstituteSymbols(templates[count])

\* type(self)(*(template.substitute(substitution) for template in self.templates))
UnionFormulaTemplate_substitute(self, substitution, base) ==
    UnionTemplate("UnionFormulaTemplate",
        [i \in DOMAIN self.templates |->
            Template_substitute(self.templates[i], substitution,
                                base + SubstituteSymbolsOf(self.templates, i - 1))],
        base + SubstituteSymbolsOf(self.templates, Len(self.templates)))

UnionTermTemplate_substitute(self, substitution, base) ==
    UnionTemplate("UnionTermTemplate",
        [i \in DOMAIN self.templates |->
            Template_substitute(self.templates[i], substitution,
                                base + SubstituteSymbolsOf(self.templates, i - 1))],
        base + SubstituteSymbolsOf(self.templates, Len(self.templates)))

(***************************************************************************)
(* The Template protocol (section 4.4), dispatched on the class of the     *)
(* template.                                                               *)
(***************************************************************************)
Template_substitute(self, substitution, base) ==
    CASE self.cls \in {"Variable", "Application", "RelationApplication"} ->
            substitute(self, substitution)
      [] self.cls = "UnionFormulaTemplate" ->
            UnionFormulaTemplate_substitute(self, substitution, base)
      [] self.cls = "UnionTermTemplate" ->
            UnionTermTemplate_substitute(self, substitution, base)
      [] self.cls = "TermTemplate" ->
            TermTemplate_substitute(self, substitution, base)
      [] self.cls = "AtomicFormulaTemplate" ->
            AtomicFormulaTemplate_substitute(self, substitution, base)
      [] self.cls = "QuantifierFreeFormulaTemplate" ->
            QuantifierFreeFormulaTemplate_substitute(self, substitution, base)

Template_get_constraint(self) ==
    CASE self.cls \in {"Variable", "Application", "TermTemplate"} ->
            Term_get_constraint(self)
      [] self.cls = "RelationApplication" -> RelationApplication_get_constraint(self)
      [] self.cls \in {"UnionFormulaTemplate", "UnionTermTemplate"} ->
            UnionTemplate_get_constraint(self)
      [] self.cls = "AtomicFormulaTemplate" -> AtomicFormulaTemplate_get_constraint(self)
      [] self.cls = "QuantifierFreeFormulaTemplate" ->
            QuantifierFreeFormulaTemplate_get_constraint(self)

Template_get_from_smt_model(self, model) ==
    CASE self.cls \in {"Variable", "Application", "TermTemplate"} ->
            Term_get_from_smt_model(self, model)
      [] self.cls = "RelationApplication" ->
            RelationApplication_get_from_smt_model(self, model)
      [] self.cls \in {"UnionFormulaTemplate", "UnionTermTemplate"} ->
            UnionTemplate_get_from_smt_model(self, model)
      [] self.cls = "AtomicFormulaTemplate" ->
            AtomicFormulaTemplate_get_from_smt_model(self, model)
      [] self.cls = "QuantifierFreeFormulaTemplate" ->
            QuantifierFreeFormulaTemplate_get_from_smt_model(self, model)

Template_equals(self, value) ==
    CASE self.cls = "TermTemplate" -> TermTemplate_equals(self, value)
      [] self.cls = "AtomicFormulaTemplate" -> AtomicFormulaTemplate_equals(self, value)
      [] self.cls = "QuantifierFreeFormulaTemplate" ->
            QuantifierFreeFormulaTemplate_equals(self, value)

\* the control variables the constructor of a template has allocated
TemplateSymbols(self) ==
    CASE self.cls = "TermTemplate" -> TermTemplateSymbols(self.language, self.depth)
      [] self.cls = "AtomicFormulaTemplate" ->
            AtomicFormulaTemplateSymbols(self.language, self.term_depth)
      [] self.cls = "QuantifierFreeFormulaTemplate" ->
            QuantifierFreeFormulaTemplateSymbols(self.language, self.term_depth,
                                                 self.formula_depth)

\* the control variables a call of substitute allocates
TemplateSubstituteSymbols(self) ==
    CASE self.cls \in {"Variable", "Application", "RelationApplication"} -> 0
      [] self.cls \in {"UnionFormulaTemplate", "UnionTermTemplate"} ->
            SubstituteSymbolsOf(self.templates, Len(self.templates)) + 1
      [] self.cls = "TermTemplate" -> TermTemplateSubstituteSymbols(self)
      [] self.cls = "AtomicFormulaTemplate" -> AtomicFormulaTemplateSubstituteSymbols(self)
      [] self.cls = "QuantifierFreeFormulaTemplate" ->
            QuantifierFreeFormulaTemplateSubstituteSymbols(self)

(***************************************************************************)
(* The inputs of the template machine.                                     *)
(***************************************************************************)
var_z == Variable("z", sort_U)

\* two sorts; a constant, a unary and a binary function symbol
TermLanguage ==
    Language(<<sort_world, sort_U>>, <<c_symbol, f_symbol, g_symbol>>, <<>>)

\* relation symbols of arity 2 and 1 over terms with a unary function symbol
AtomLanguage ==
    Language(<<sort_world, sort_U>>, <<c_symbol, f_symbol>>,
             <<transition_symbol, p_symbol>>)

\* one sort and the unary relation symbol of the example theories
PropositionLanguage ==
    Language(<<sort_world>>, <<>>, <<p_symbol>>)

TermTemplates ==
    {TermTemplate(TermLanguage, free_vars, depth, sort, 0) :
        free_vars \in {<<>>, <<var_x>>, <<var_x, var_z>>},
        depth \in 0 .. MaxDepth,
        sort \in {None, sort_world, sort_U}}

AtomicFormulaTemplates ==
    {AtomicFormulaTemplate(AtomLanguage, <<var_x>>, term_depth, allow_constant, 0) :
        term_depth \in 0 .. MaxDepth, allow_constant \in BOOLEAN}

QuantifierFreeFormulaTemplates ==
    {QuantifierFreeFormulaTemplate(PropositionLanguage, <<var_x>>, 0, formula_depth,
                                   allow_constant, 0) :
        formula_depth \in 0 .. MaxFormulaDepth, allow_constant \in BOOLEAN}

\* sort-preserving substitutions of the free variables by concrete terms
TemplateSubstitutions ==
    {[v \in {var_x} |-> Application(f_symbol, <<var_y>>)],
     [v \in {var_y} |-> Application(c_symbol, <<>>)],
     [v \in {var_x, var_z} |->
        IF v = var_x THEN var_y
        ELSE Application(g_symbol, <<var_x, var_x>>)]}

(***************************************************************************)
(* The template machine: a template is constructed; its constraint is      *)
(* asserted on a solver, which decides the control variables one by one    *)
(* and never extends a model that falsifies the assertion; the template    *)
(* is substituted into (once or twice); the concrete value is read off     *)
(* the model and compared with the template.                               *)
(***************************************************************************)
TemplateInit ==
    /\ tmpl \in TermTemplates \cup AtomicFormulaTemplates
                \cup QuantifierFreeFormulaTemplates
    /\ cur = tmpl
    /\ sigmas = <<>>
    /\ fresh = TemplateSymbols(tmpl)
    /\ assertion = None
    /\ solver_model = <<>>
    /\ candidate = None
    /\ orig_candidate = None
    /\ eq = None
    /\ tpc = "constructed"
    /\ SyntaxIdle
    /\ LanguageIdle
    /\ DriverIdle
    /\ EnumerateIdle

\* solver.add_assertion(template.get_constraint())
AddAssertion ==
    /\ tpc = "constructed"
    /\ assertion' = Template_get_constraint(tmpl)
    /\ tpc' = "solving"
    /\ UNCHANGED <<tmpl, cur, sigmas, fresh, solver_model, candidate, orig_candidate, eq, svars, lvars, dvars, gvars>>

\* the solver fixes the value of the next control variable
Decide ==
    /\ tpc = "solving"
    /\ Len(solver_model) < fresh
    /\ \E node_value \in 0 .. MaxNodeValue :
            /\ Eval(assertion, Append(solver_model, node_value)) # "F"
            /\ solver_model' = Append(solver_model, node_value)
    /\ UNCHANGED <<tmpl, cur, sigmas, fresh, assertion, candidate, orig_candidate, eq, tpc,
                   svars, lvars, dvars, gvars>>

\* solver.solve() returns True; solver.get_model()
Solve ==
    /\ tpc = "solving"
    /\ Len(solver_model) = fresh
    /\ Eval(assertion, solver_model) = "T"
    /\ tpc' = "sat"
    /\ UNCHANGED <<tmpl, cur, sigmas, fresh, assertion, solver_model, candidate, orig_candidate, eq,
                   svars, lvars, dvars, gvars>>

SubstituteTemplate ==
    /\ tpc = "sat"
    /\ \E s \in TemplateSubstitutions :
            /\ cur' = Template_substitute(cur, s, fresh)
            /\ sigmas' = <<s>>
    /\ fresh' = fresh + TemplateSubstituteSymbols(cur)
    /\ tpc' = "substituted"
    /\ UNCHANGED <<tmpl, assertion, solver_model, candidate, orig_candidate, eq, svars, lvars, dvars, gvars>>

SubstituteTemplateAgain ==
    /\ tpc = "substituted"
    /\ Len(sigmas) = 1
    /\ \E s \in TemplateSubstitutions :
            /\ cur' = Template_substitute(cur, s, fresh)
            /\ sigmas' = Append(sigmas, s)
    /\ fresh' = fresh + TemplateSubstituteSymbols(cur)
    /\ UNCHANGED <<tmpl, assertion, solver_model, candidate, orig_candidate, eq, tpc, svars, lvars, dvars, gvars>>

\* template.get_from_smt_model(solver.get_model()), for a model of the
\* constraint of the template
GetFromModel ==
    /\ tpc \in {"sat", "substituted"}
    /\ Eval(Template_get_constraint(cur), solver_model) = "T"
    /\ candidate' = Template_get_from_smt_model(cur, solver_model)
    /\ orig_candidate' = Template_get_from_smt_model(tmpl, solver_model)
    /\ tpc' = "extracted"
    /\ UNCHANGED <<tmpl, cur, sigmas, fresh, assertion, solver_model, eq, svars, lvars, dvars, gvars>>

\* template.equals(candidate), for the value read off the model
Equals ==
    /\ tpc = "extracted"
    /\ ~candidate.raised
    /\ eq' = Template_equals(cur, candidate.value)
    /\ tpc' = "compared"
    /\ UNCHANGED <<tmpl, cur, sigmas, fresh, assertion, solver_model, candidate, orig_candidate,
                   svars, lvars, dvars, gvars>>

TemplateNext ==
    \/ AddAssertion
    \/ Decide
    \/ Solve
    \/ SubstituteTemplate
    \/ SubstituteTemplateAgain
    \/ GetFromModel
    \/ Equals

Spec == TemplateInit /\ [][TemplateNext]_vars

(***************************************************************************)
(* Claims about the templates.                                             *)
(***************************************************************************)
\* a solver model of the asserted constraint has been found
ModelFound == tpc \in {"sat", "substituted", "extracted", "compared"}

\* C1: for a model M of the constraint of a template T, the call
\* T.equals(T.get_from_smt_model(M)) returns a backend term, and the term
\* is true in M.
C1_RoundTrip ==
    tpc = "compared" =>
        /\ ~eq.raised
        /\ Eval(eq.value, solver_model) = "T"

\* the tuples whose i-th element is drawn from the i-th set
RECURSIVE Tuples(_)
Tuples(sets) ==
    IF sets = <<>> THEN {<<>>}
    ELSE {<<first>> \o rest : first \in sets[1], rest \in Tuples(Tail(sets))}

\* the well-sorted terms of a sort and of height at most depth over the
\* variables free_vars and the function symbols of a language
RECURSIVE WellSortedTerms(_, _, _, _)
WellSortedTerms(language, free_vars, sort, depth) ==
    {free_vars[i] : i \in {j \in DOMAIN free_vars : free_vars[j].sort = sort}}
    \cup UNION {
            {Application(language.function_symbols[k], arguments) :
                arguments \in Tuples(
                    [i \in DOMAIN language.function_symbols[k].input_sorts |->
                        WellSortedTerms(language, free_vars,
                            language.function_symbols[k].input_sorts[i], depth - 1)])} :
            k \in {j \in DOMAIN language.function_symbols :
                    /\ language.function_symbols[j].output_sort = sort
                    /\ (depth > 0 \/ language.function_symbols[j].input_sorts = <<>>)}}

\* a tuple of n zeros
Zeros(n) == [i \in 1 .. n |-> 0]

\* the concatenation of a tuple of tuples
RECURSIVE Flatten(_)
Flatten(tuples) ==
    IF tuples = <<>> THEN <<>> ELSE tuples[1] \o Flatten(Tail(tuples))

\* the tag assignment, on the control variables of a TermTemplate in the
\* order of their allocation, that spells out a term: the tag of the
\* variable or of the symbol at the root, the arguments in the first
\* subterms, zero everywhere else
RECURSIVE Encode(_, _)
Encode(template, term) ==
    LET V == Len(template.free_vars)
        below == IF template.depth = 0 THEN 0
                 ELSE TermTemplateSymbols(template.language, template.depth - 1)
    IN  IF term.cls = "Variable"
        THEN <<CHOOSE i \in 1 .. V : template.free_vars[i] = term>>
             \o Zeros(Len(template.subterms) * below)
        ELSE <<V + (CHOOSE k \in DOMAIN template.language.function_symbols :
                        template.language.function_symbols[k] = term.function_symbol)>>
             \o Flatten([i \in DOMAIN template.subterms |->
                            IF i <= Len(term.arguments)
                            THEN Encode(template.subterms[i], term.arguments[i])
                            ELSE Zeros(below)])

\* C5: for a TermTemplate of a fixed sort s and depth d that has not been
\* substituted into, the terms get_from_smt_model returns over the models
\* of get_constraint() are exactly the well-sorted terms of sort s and of
\* height at most d: every returned term is one of them, and each of them is
\* returned for a model of the constraint; the constraint has a model only
\* if there is such a term.
C5_TermSpace ==
    (tmpl.cls = "TermTemplate" /\ tmpl.sort # None) =>
        LET terms == WellSortedTerms(tmpl.language, tmpl.free_vars, tmpl.sort,
                                     tmpl.depth)
        IN  /\ (tpc = "solving" /\ solver_model = <<>>) =>
                    \A term \in terms :
                        /\ Eval(assertion, Encode(tmpl, term)) = "T"
                        /\ TermTemplate_get_from_smt_model(tmpl, Encode(tmpl, term))
                                = Return(term)
            /\ (tpc = "extracted" /\ sigmas = <<>>) =>
                    /\ ~candidate.raised
                    /\ candidate.value \in terms
            /\ ModelFound => terms # {}

\* a term of sort U with a variable and a constant below a binary symbol has
\* been read off a model
C5_Witness ==
    /\ tpc = "extracted" /\ sigmas = <<>>
    /\ tmpl.cls = "TermTemplate" /\ tmpl.sort = sort_U /\ tmpl.depth = 1
    /\ candidate = Return(Application(g_symbol,
                            <<var_x, Application(c_symbol, <<>>)>>))

\* the backend symbols of the control variables of a template tree
RECURSIVE Symbols(_)
Symbols(template) ==
    {template.node.symbol}
    \cup (CASE template.cls = "TermTemplate" ->
                UnionOver([i \in DOMAIN template.subterms |->
                            Symbols(template.subterms[i])])
            [] template.cls = "AtomicFormulaTemplate" ->
                UnionOver([i \in DOMAIN template.subterms |->
                            Symbols(template.subterms[i])])
            [] template.cls = "QuantifierFreeFormulaTemplate" ->
                Symbols(template.atom)
                \cup UnionOver([i \in DOMAIN template.subformulas |->
                                    Symbols(template.subformulas[i])]))

\* every tag of the subtree is 0
EntirelyNull(template, tags) == \A symbol \in Symbols(template) : tags[symbol] = 0

ConnectiveArity(tag) == IF tag = 4 THEN 1 ELSE 2

RECURSIVE WellFormedNode(_, _)
WellFormedNode(template, tags) ==
    LET tag == tags[template.node.symbol]
        subformulas == template.subformulas
    IN  /\ tag \in 1 .. 6
        /\ template.formula_depth = 0 => tag = 1
        /\ tag = 1 =>
            /\ Eval(AtomicFormulaTemplate_get_well_formedness_constraint(template.atom),
                    tags) = "T"
            /\ \A i \in DOMAIN subformulas : EntirelyNull(subformulas[i], tags)
        /\ tag \in 2 .. 6 =>
            /\ EntirelyNull(template.atom, tags)
            /\ Len(subformulas) >= ConnectiveArity(tag)
            /\ \A i \in DOMAIN subformulas :
                IF i <= ConnectiveArity(tag)
                THEN WellFormedNode(subformulas[i], tags)
                ELSE EntirelyNull(subformulas[i], tags)

\* C6: in a model of QuantifierFreeFormulaTemplate.get_constraint() every
\* node that is not null has a tag in 1..6, which is 1 at formula_depth 0;
\* under tag 1 the atom is well-formed and the subformulas are entirely
\* null; under a connective of arity a the atom is entirely null, the first
\* a subformulas are well-formed in the same way and the others are
\* entirely null.
C6_QuantifierFreeWellFormed ==
    (ModelFound /\ tmpl.cls = "QuantifierFreeFormulaTemplate") =>
        WellFormedNode(tmpl, solver_model)

\* a model with a negation at the root: the atom of the root and the second
\* subformula are null, the first subformula is atomic
C6_Witness ==
    /\ tpc = "sat"
    /\ tmpl.cls = "QuantifierFreeFormulaTemplate"
    /\ tmpl.formula_depth = 1
    /\ solver_model[tmpl.node.symbol] = 4
    /\ solver_model[tmpl.subformulas[1].node.symbol] = 1
    /\ solver_model[tmpl.subformulas[1].atom.node.symbol] = 3

\* C7: in a model of AtomicFormulaTemplate.get_constraint() over R relation
\* symbols the tag is in 1..2+R; the tags 1 and 2 occur only with
\* allow_constant and then every term child is null; under the tag of a
\* relation symbol of arity k the first k term children are well-formed at
\* the input sorts of the symbol and the others are null.
C7_AtomicWellFormed ==
    (ModelFound /\ tmpl.cls = "AtomicFormulaTemplate") =>
        LET tag == solver_model[tmpl.node.symbol]
            relation_symbols == tmpl.language.relation_symbols
        IN  /\ tag \in 1 .. (2 + Len(relation_symbols))
            /\ tag \in {1, 2} =>
                /\ tmpl.allow_constant
                /\ \A i \in DOMAIN tmpl.subterms :
                        EntirelyNull(tmpl.subterms[i], solver_model)
            /\ tag >= 3 =>
                LET input_sorts == relation_symbols[tag - 2].input_sorts
                IN  /\ Len(input_sorts) <= Len(tmpl.subterms)
                    /\ \A i \in DOMAIN tmpl.subterms :
                        IF i <= Len(input_sorts)
                        THEN Eval(TermTemplate_get_well_formedness_constraint(
                                    tmpl.subterms[i], input_sorts[i]),
                                  solver_model) = "T"
                        ELSE EntirelyNull(tmpl.subterms[i], solver_model)

\* a model that selects the unary relation symbol: the first term child is a
\* symbol applied to a variable, the second term child is null
C7_Witness ==
    /\ tpc = "sat"
    /\ tmpl.cls = "AtomicFormulaTemplate"
    /\ tmpl.term_depth = 1
    /\ solver_model[tmpl.node.symbol] = 4
    /\ solver_model[tmpl.subterms[1].node.symbol] = 3
    /\ EntirelyNull(tmpl.subterms[2], solver_model)

\* the substitutions of a tuple applied one after the other
RECURSIVE SubstituteAll(_, _)
SubstituteAll(term, substitutions) ==
    IF substitutions = <<>> THEN term
    ELSE SubstituteAll(substitute(term, substitutions[1]), Tail(substitutions))

\* C8: for a TermTemplate T, a substitution sigma and a model M of the
\* constraint of T.substitute(sigma), T.substitute(sigma).get_from_smt_model(M)
\* is T.get_from_smt_model(M).substitute(sigma); likewise after a second
\* substitution.
C8_SubstituteCommutes ==
    (tpc = "extracted" /\ tmpl.cls = "TermTemplate" /\ sigmas # <<>>) =>
        /\ ~candidate.raised
        /\ ~orig_candidate.raised
        /\ candidate.value = SubstituteAll(orig_candidate.value, sigmas)

\* x below f, replaced by f(y) and then y by c
C8_Witness ==
    /\ tpc = "extracted"
    /\ tmpl.cls = "TermTemplate"
    /\ Len(sigmas) = 2
    /\ orig_candidate = Return(Application(f_symbol, <<var_x>>))
    /\ candidate = Return(Application(f_symbol,
                    <<Application(f_symbol, <<Application(c_symbol, <<>>)>>)>>))

\* the control variables of a template tree, position by position
RECURSIVE ControlVariables(_)
ControlVariables(template) ==
    CASE template.cls = "TermTemplate" ->
            [node |-> template.node,
             subterms |-> [i \in DOMAIN template.subterms |->
                            ControlVariables(template.subterms[i])]]
      [] template.cls = "AtomicFormulaTemplate" ->
            [node |-> template.node,
             subterms |-> [i \in DOMAIN template.subterms |->
                            ControlVariables(template.subterms[i])]]
      [] template.cls = "QuantifierFreeFormulaTemplate" ->
            [node |-> template.node,
             atom |-> ControlVariables(template.atom),
             subformulas |-> [i \in DOMAIN template.subformulas |->
                                ControlVariables(template.subformulas[i])]]

\* C9: substitute returns a template that has, at every position of the
\* tree, the control variable the original has there, and the template as
\* constructed is left as it was.
C9_SubstituteSharesControlVariables ==
    [][sigmas' # sigmas =>
        /\ ControlVariables(cur') = ControlVariables(cur)
        /\ ControlVariables(cur') = ControlVariables(tmpl)
        /\ tmpl' = tmpl]_vars

\* a quantifier-free template with subformulas has been substituted into,
\* and the substitution has reached the term templates of its atoms
C9_Witness ==
    /\ tpc = "substituted"
    /\ cur.cls = "QuantifierFreeFormulaTemplate"
    /\ cur.formula_depth = 1
    /\ cur.subformulas[1].atom.subterms[1].substitution[var_x]
            = Application(f_symbol, <<var_y>>)

(***************************************************************************)
(* Reading a value off a model that does not satisfy the constraint: the   *)
(* caller hands get_from_smt_model a model whose root tag is 0.            *)
(***************************************************************************)
MaxInvalidTag == 1

q_symbol == RelationSymbol(<<sort_world>>, "Q")

\* three relation symbols, the first of them unary
ThreeRelationLanguage ==
    Language(<<sort_world>>, <<>>, <<p_symbol, transition_symbol, q_symbol>>)

InvalidModelTemplates ==
    TermTemplates \cup AtomicFormulaTemplates \cup QuantifierFreeFormulaTemplates
    \cup {AtomicFormulaTemplate(ThreeRelationLanguage, <<var_x>>, 0, allow_constant, 0) :
            allow_constant \in BOOLEAN}

InvalidModelInit ==
    /\ tmpl \in InvalidModelTemplates
    /\ cur = tmpl
    /\ sigmas = <<>>
    /\ fresh = TemplateSymbols(tmpl)
    /\ assertion = None
    /\ solver_model = <<>>
    /\ candidate = None
    /\ orig_candidate = None
    /\ eq = None
    /\ tpc = "constructed"
    /\ SyntaxIdle
    /\ LanguageIdle
    /\ DriverIdle
    /\ EnumerateIdle

\* a model with the tag 0 at the root of the template
InvalidModel ==
    /\ tpc = "constructed"
    /\ \E tags \in [2 .. TemplateSymbols(tmpl) -> 0 .. MaxInvalidTag] :
            solver_model' = [symbol \in 1 .. TemplateSymbols(tmpl) |->
                                IF symbol = tmpl.node.symbol THEN 0 ELSE tags[symbol]]
    /\ tpc' = "invalid"
    /\ UNCHANGED <<tmpl, cur, sigmas, fresh, assertion, candidate, orig_candidate, eq,
                   svars, lvars, dvars, gvars>>

\* template.get_from_smt_model(model)
GetFromInvalidModel ==
    /\ tpc = "invalid"
    /\ candidate' = Template_get_from_smt_model(tmpl, solver_model)
    /\ tpc' = "decoded"
    /\ UNCHANGED <<tmpl, cur, sigmas, fresh, assertion, solver_model, orig_candidate, eq,
                   svars, lvars, dvars, gvars>>

InvalidModelNext ==
    \/ InvalidModel
    \/ GetFromInvalidModel

SpecInvalidModel == InvalidModelInit /\ [][InvalidModelNext]_vars

\* C11: get_from_smt_model called with a model whose root tag is 0 raises
\* an error and returns no concrete value, for a TermTemplate, an
\* AtomicFormulaTemplate and a QuantifierFreeFormulaTemplate, whatever the
\* number of relation symbols of the language.
C11_InvalidModelRaises ==
    (tpc = "decoded" /\ solver_model[tmpl.node.symbol] = 0) => candidate.raised

(***************************************************************************)
(* Interpretation under a valuation that need not value every variable.    *)
(***************************************************************************)
PartialValuations ==
    UNION {[dom -> Carrier] : dom \in SUBSET SyntaxVariables}

\* e.interpret(structure, valuation)
InterpretUnder ==
    /\ spc = "build"
    /\ \E struct \in Structures, val \in PartialValuations :
            /\ structure' = struct
            /\ valuation' = val
            /\ lhs' = interpret(e, struct, val)
    /\ spc' = "evaluated"
    /\ UNCHANGED <<e, e0, sigma, rhs, built, lvars, tvars, dvars, gvars>>

InterpretNext ==
    \/ MkNegation
    \/ MkBinary
    \/ MkUniversalQuantification
    \/ MkExistentialQuantification
    \/ InterpretUnder

SpecInterpret == SyntaxInit /\ [][InterpretNext]_vars

\* the valuations that differ from val at most at the variable
Variants(val, variable) ==
    {other \in PartialValuations :
        /\ DOMAIN other \ {variable} = DOMAIN val \ {variable}
        /\ \A v \in DOMAIN val \ {variable} : other[v] = val[v]}

\* C12: interpret(e, M, V) fails iff some free variable of e is not in the
\* domain of V; a variable bound by an enclosing quantifier does not make
\* it fail, and the result for a quantification over x does not depend on
\* V(x).
C12_UnboundVariable ==
    spc = "evaluated" =>
        /\ lhs.raised <=> ~(get_free_variables(e) \subseteq DOMAIN valuation)
        /\ e.cls \in QuantifierClasses =>
                \A other \in Variants(valuation, e.variable) :
                    interpret(e, structure, other) = lhs

\* a quantification over x whose body has x free is interpreted under a
\* valuation that gives x the value 1 and leaves y out, and returns a value
C12_Witness ==
    /\ spc = "evaluated"
    /\ e.cls \in QuantifierClasses
    /\ e.variable = var_x
    /\ var_x \in get_free_variables(e.body)
    /\ DOMAIN valuation = {var_x}
    /\ valuation[var_x] = 1
    /\ ~lhs.raised

(***************************************************************************)
(* The modal layer (section 4.7 of the specification): modal formulas,     *)
(* frames built from first-order structures, interpretation at a world     *)
(* and on all worlds.  A valuation maps the name of an atom to the set of  *)
(* worlds where the atom holds.                                            *)
(***************************************************************************)
modal_Atom(name) == [cls |-> "modal.Atom", name |-> name]

modal_Implication(left, right) ==
    [cls |-> "modal.Implication", left |-> left, right |-> right]

modal_Box(formula) == [cls |-> "modal.Box", formula |-> formula]

modal_Diamond(formula) == [cls |-> "modal.Diamond", formula |-> formula]

FOStructureFrame(struct, world_sort, transition) ==
    [structure |-> struct, world_sort |-> world_sort, transition_symbol |-> transition]

\* the worlds of a frame
get_domain(frame) == interpret_sort(frame.structure, frame.world_sort)

\* w R w'
interpret_transition(frame, from, to) ==
    interpret_relation(frame.structure, frame.transition_symbol, <<from, to>>)

RECURSIVE modal_interpret(_, _, _, _)
modal_interpret(self, frame, val, world) ==
    CASE self.cls = "modal.Atom" -> world \in val[self.name]
      [] self.cls = "modal.Verum" -> TRUE
      [] self.cls = "modal.Falsum" -> FALSE
      [] self.cls = "modal.Conjunction" ->
            modal_interpret(self.left, frame, val, world)
            /\ modal_interpret(self.right, frame, val, world)
      [] self.cls = "modal.Disjunction" ->
            modal_interpret(self.left, frame, val, world)
            \/ modal_interpret(self.right, frame, val, world)
      [] self.cls = "modal.Negation" ->
            ~modal_interpret(self.formula, frame, val, world)
      [] self.cls = "modal.Implication" ->
            modal_interpret(self.left, frame, val, world)
            => modal_interpret(self.right, frame, val, world)
      [] self.cls = "modal.Equivalence" ->
            modal_interpret(self.left, frame, val, world)
            <=> modal_interpret(self.right, frame, val, world)
      [] self.cls = "modal.Box" ->
            \A next \in get_domain(frame) :
                interpret_transition(frame, world, next)
                => modal_interpret(self.formula, frame, val, next)
      [] self.cls = "modal.Diamond" ->
            \E next \in get_domain(frame) :
                interpret_transition(frame, world, next)
                /\ modal_interpret(self.formula, frame, val, next)

interpret_on_all_worlds(self, frame, val) ==
    \A world \in get_domain(frame) : modal_interpret(self, frame, val, world)

(***************************************************************************)
(* The theories of examples/axiomatization.py, as the parser returns      *)
(* them: a language and the sentences, declarations first, then axioms.    *)
(***************************************************************************)
Axiom(formula) == [cls |-> "Axiom", formula |-> formula]

Theory(language, sentences) == [language |-> language, sentences |-> sentences]

\* sort W, relation R: W W, relation P: W
FrameLanguage ==
    Language(<<sort_world>>, <<>>, <<transition_symbol, p_symbol>>)

FrameDeclarations ==
    <<[cls |-> "SortDeclaration", sort |-> sort_world],
      [cls |-> "RelationDeclaration", relation_symbol |-> transition_symbol],
      [cls |-> "RelationDeclaration", relation_symbol |-> p_symbol]>>

\* forall x: W, y: W, z: W. body
ForAllXYZ(body) ==
    UniversalQuantification(var_x,
        UniversalQuantification(var_y,
            UniversalQuantification(Variable("z", sort_world), body)))

Transition(left, right) == RelationApplication(transition_symbol, <<left, right>>)

trivial_theory == Theory(FrameLanguage, FrameDeclarations)

\* the mutant of the theory of reflexive frames that lost its axiom
reflexivity_theory_without_axiom == Theory(FrameLanguage, FrameDeclarations)

reflexivity_theory ==
    Theory(FrameLanguage,
           FrameDeclarations \o <<Axiom(UniversalQuantification(var_x, Transition(var_x, var_x)))>>)

transitive_theory ==
    LET z == Variable("z", sort_world)
    IN  Theory(FrameLanguage,
               FrameDeclarations \o <<Axiom(ForAllXYZ(
                    Implication(Conjunction(Transition(var_x, var_y), Transition(var_y, z)),
                                Transition(var_x, z))))>>)

symmetric_theory ==
    Theory(FrameLanguage,
           FrameDeclarations \o <<Axiom(
                UniversalQuantification(var_x, UniversalQuantification(var_y,
                    Implication(Transition(var_x, var_y), Transition(var_y, var_x)))))>>)

rst_theory ==
    LET z == Variable("z", sort_world)
    IN  Theory(FrameLanguage,
               FrameDeclarations \o <<Axiom(ForAllXYZ(
                    Conjunction(
                        Conjunction(Transition(var_x, var_x),
                                    Implication(Transition(var_x, var_y), Transition(var_y, var_x))),
                        Implication(Conjunction(Transition(var_x, var_y), Transition(var_y, z)),
                                    Transition(var_x, z)))))>>)

\* theory.extend_axioms(axioms)
extend_axioms(theory, axioms) ==
    Theory(theory.language,
           theory.sentences \o [i \in DOMAIN axioms |-> Axiom(axioms[i])])

(***************************************************************************)
(* Finite structures over the language of frames: the carrier of W is      *)
(* {0, ..., size - 1}, R is a set of pairs and P a set of 1-tuples.        *)
(***************************************************************************)
MaxWorlds == 2

\* the frame size of scenario S1
scenario_frame_size == 3

FrameStructure(size, transitions, proposition) ==
    [carriers |-> [n \in {"W"} |-> 0 .. (size - 1)],
     functions |-> <<>>,
     relations |-> [n \in {"R", "P"} |->
                        IF n = "R" THEN transitions ELSE proposition]]

FrameStructures ==
    UNION {{FrameStructure(size, transitions, {<<w>> : w \in proposition}) :
                transitions \in SUBSET ((0 .. (size - 1)) \X (0 .. (size - 1))),
                proposition \in SUBSET (0 .. (size - 1))} :
           size \in 1 .. (IF MaxWorlds > scenario_frame_size
                            THEN MaxWorlds ELSE scenario_frame_size)}

SizeOf(struct) == Cardinality(struct.carriers["W"])

\* the structure with another interpretation of P
WithProposition(struct, proposition) ==
    [struct EXCEPT !.relations["P"] = proposition]

\* modal.FOStructureFrame(model, sort_world, transition_symbol)
FrameOf(struct) == FOStructureFrame(struct, sort_world, transition_symbol)

\* { atom_p: lambda world: model.interpret_relation(p_symbol, world) }
ValuationOf(struct) ==
    [name \in {"p"} |->
        {world \in interpret_sort(struct, sort_world) :
            interpret_relation(struct, p_symbol, <<world>>)}]

\* the structures that satisfy every axiom of a theory
IsModelOf(struct, theory) ==
    \A i \in DOMAIN theory.sentences :
        theory.sentences[i].cls = "Axiom" =>
            interpret(theory.sentences[i].formula, struct, <<>>).value

(***************************************************************************)
(* The modal formulas of the runs and what the solver needs to know of     *)
(* them, computed once: where a formula is false at some world.            *)
(***************************************************************************)
atom_p == modal_Atom("p")

\* Box(p) -> p
axiom_T == modal_Implication(modal_Box(atom_p), atom_p)

\* Box(p) -> Box(Box(p))
axiom_4 == modal_Implication(modal_Box(atom_p), modal_Box(modal_Box(atom_p)))

\* Diamond(p) -> Box(p)
functional == modal_Implication(modal_Diamond(atom_p), modal_Box(atom_p))

\* Box(p) -> Diamond(p)
axiom_D == modal_Implication(modal_Box(atom_p), modal_Diamond(atom_p))

ModalFormulas == {atom_p, axiom_T, axiom_4, functional, axiom_D}

\* the structures in which a formula is false at some world
NotValidOn ==
    [formula \in ModalFormulas |->
        {struct \in FrameStructures :
            ~interpret_on_all_worlds(formula, FrameOf(struct), ValuationOf(struct))}]

\* the structures, whatever their P, on whose frame a formula is false at
\* some world under some interpretation of P
NotValidOnFrame ==
    [formula \in ModalFormulas |->
        {WithProposition(struct, {}) : struct \in NotValidOn[formula]}]

\* FiniteFOModelTemplate(theory, { sort_world: size }): a symbolic structure,
\* kept with the concrete structures its constraint admits
FiniteFOModelTemplate(theory, size) ==
    [theory |-> theory,
     sort_sizes |-> size,
     models |-> {struct \in FrameStructures :
                    SizeOf(struct) <= size /\ IsModelOf(struct, theory)}]

(***************************************************************************)
(* examples/axiomatization.py: the candidate loop over two solvers.  An    *)
(* assertion is kept as the call that built it; a model of solver1 is a    *)
(* formula of the template with a structure of the trivial model, a model  *)
(* of solver2 is a structure of the goal model.                            *)
(***************************************************************************)
\* formula_template.get_constraint() and trivial_model.get_constraint()
TemplateConstraint == [kind |-> "template_constraint"]

ModelConstraint == [kind |-> "model_constraint"]

\* smt.Not(formula_template.interpret_on_all_worlds(trivial_model frame, P of the model))
NotValidOnTrivial == [kind |-> "not_valid_on_trivial"]

\* formula_template.interpret_on_all_worlds(counterexample frame, P of the counterexample)
HoldsOn(struct) == [kind |-> "holds_on", structure |-> struct]

\* smt.ForAll(p_values, candidate.interpret_on_all_worlds(trivial_model frame, p_relation))
ValidOnTrivial(formula) == [kind |-> "valid_on_trivial", formula |-> formula]

\* smt.Not(candidate.interpret_on_all_worlds(goal_model frame, P of the model))
NotValid(formula) == [kind |-> "not_valid", formula |-> formula]

\* the formulas of the models of solver1: every assertion holds of the
\* formula and of one structure of the trivial model.  P is constrained by
\* NotValidOnTrivial alone (the trivial theory has no axiom), so a structure
\* stands for the structures with its frame.
Solver1Candidates ==
    LET HoldsOfFormula(a, formula) ==
            CASE a.kind = "template_constraint" -> formula \in formula_template
              [] a.kind = "holds_on" -> a.structure \notin NotValidOn[formula]
              [] OTHER -> TRUE
        HoldsOfStructure(a, formula, struct) ==
            CASE a.kind = "model_constraint" -> struct \in trivial_model.models
              [] a.kind = "not_valid_on_trivial" -> struct \in NotValidOnFrame[formula]
              [] a.kind = "valid_on_trivial" -> struct \notin NotValidOnFrame[a.formula]
              [] OTHER -> TRUE
    IN  {formula \in formula_template :
            /\ \A i \in DOMAIN solver1 : HoldsOfFormula(solver1[i], formula)
            /\ \E struct \in NotValidOnFrame[formula] :
                    \A i \in DOMAIN solver1 :
                        HoldsOfStructure(solver1[i], formula, struct)}

\* the models of solver2: every assertion of every level of the stack holds
Solver2Models ==
    LET Holds(a, struct) ==
            CASE a.kind = "model_constraint" -> struct \in goal_model.models
              [] a.kind = "not_valid" -> struct \in NotValidOn[a.formula]
    IN  {struct \in goal_model.models :
            \A level \in DOMAIN solver2 : \A i \in DOMAIN solver2[level] :
                Holds(solver2[level][i], struct)}

\* lines 58-88: the templates, the two solvers and their first assertions
DriverSetup(goal_theory, size, formulas) ==
    /\ formula_template = formulas
    /\ trivial_model = FiniteFOModelTemplate(trivial_theory, size)
    /\ goal_model = FiniteFOModelTemplate(goal_theory, size)
    /\ solver1 = <<TemplateConstraint, ModelConstraint, NotValidOnTrivial>>
    /\ solver2 = <<<<ModelConstraint>>>>
    /\ cand = None
    /\ true_formulas = <<>>
    /\ proposed = <<>>
    /\ rejected = <<>>
    /\ dpc = "loop"
    /\ complement_theory = None
    /\ complement_structure = None
    /\ SyntaxIdle
    /\ LanguageIdle
    /\ TemplateIdle
    /\ EnumerateIdle

\* goal_theory = rst_theory
DriverInit == DriverSetup(rst_theory, MaxWorlds, {atom_p, axiom_T, functional})

\* while solver1.solve(): candidate = formula_template.get_from_smt_model(...)
Propose ==
    /\ dpc = "loop"
    /\ \E formula \in Solver1Candidates :
            /\ cand' = formula
            /\ proposed' = Append(proposed, formula)
    /\ dpc' = "push"
    /\ UNCHANGED <<formula_template, trivial_model, goal_model, solver1, solver2,
                   true_formulas, rejected, svars, lvars, tvars, cvars, gvars>>

\* the mutant of the exit that ends the loop whatever solver1 answers
Exhausted_at_once ==
    /\ dpc = "loop"
    /\ dpc' = "done"
    /\ UNCHANGED <<formula_template, trivial_model, goal_model, solver1, solver2, cand,
                   true_formulas, proposed, rejected, svars, lvars, tvars, cvars, gvars>>

\* solver1.solve() returns False: the loop ends
Exhausted ==
    /\ dpc = "loop"
    /\ Solver1Candidates = {}
    /\ dpc' = "done"
    /\ UNCHANGED <<formula_template, trivial_model, goal_model, solver1, solver2, cand,
                   true_formulas, proposed, rejected, svars, lvars, tvars, cvars, gvars>>

\* solver2.push()
Push ==
    /\ dpc = "push"
    /\ solver2' = Append(solver2, <<>>)
    /\ dpc' = "assert"
    /\ UNCHANGED <<formula_template, trivial_model, goal_model, solver1, cand,
                   true_formulas, proposed, rejected, svars, lvars, tvars, cvars, gvars>>

\* solver2.add_assertion(smt.Not(candidate.interpret_on_all_worlds(...)))
AssertNotValid ==
    /\ dpc = "assert"
    /\ solver2' = [solver2 EXCEPT ![Len(solver2)] = Append(@, NotValid(cand))]
    /\ dpc' = "solve"
    /\ UNCHANGED <<formula_template, trivial_model, goal_model, solver1, cand,
                   true_formulas, proposed, rejected, svars, lvars, tvars, cvars, gvars>>

\* the mutant of the rejection that does not assert the counterexample
Reject_without_counterexample ==
    /\ dpc = "solve"
    /\ Solver2Models # {}
    /\ rejected' = Append(rejected, cand)
    /\ dpc' = "pop"
    /\ UNCHANGED <<formula_template, trivial_model, goal_model, solver1, solver2, cand,
                   true_formulas, proposed, svars, lvars, tvars, cvars, gvars>>

\* solver2.solve() returns True: the counterexample is asserted on solver1
Reject ==
    /\ dpc = "solve"
    /\ \E counterexample \in Solver2Models :
            solver1' = Append(solver1, HoldsOn(counterexample))
    /\ rejected' = Append(rejected, cand)
    /\ dpc' = "pop"
    /\ UNCHANGED <<formula_template, trivial_model, goal_model, solver2, cand,
                   true_formulas, proposed, svars, lvars, tvars, cvars, gvars>>

\* the mutant of the acceptance that does not look at the answer of solver2
Accept_unchecked ==
    /\ dpc = "solve"
    /\ true_formulas' = Append(true_formulas, cand)
    /\ solver1' = Append(solver1, ValidOnTrivial(cand))
    /\ dpc' = "pop"
    /\ UNCHANGED <<formula_template, trivial_model, goal_model, solver2, cand,
                   proposed, rejected, svars, lvars, tvars, cvars, gvars>>

\* solver2.solve() returns False: the candidate is kept and the trivial
\* models are restricted to those where it holds
Accept ==
    /\ dpc = "solve"
    /\ Solver2Models = {}
    /\ true_formulas' = Append(true_formulas, cand)
    /\ solver1' = Append(solver1, ValidOnTrivial(cand))
    /\ dpc' = "pop"
    /\ UNCHANGED <<formula_template, trivial_model, goal_model, solver2, cand,
                   proposed, rejected, svars, lvars, tvars, cvars, gvars>>

\* the mutant of the pop that leaves the level on the stack
Pop_kept ==
    /\ dpc = "pop"
    /\ dpc' = "loop"
    /\ UNCHANGED <<formula_template, trivial_model, goal_model, solver1, solver2, cand,
                   true_formulas, proposed, rejected, svars, lvars, tvars, cvars, gvars>>

\* solver2.pop()
Pop ==
    /\ dpc = "pop"
    /\ Len(solver2) > 1
    /\ solver2' = SubSeq(solver2, 1, Len(solver2) - 1)
    /\ dpc' = "loop"
    /\ UNCHANGED <<formula_template, trivial_model, goal_model, solver1, cand,
                   true_formulas, proposed, rejected, svars, lvars, tvars, cvars, gvars>>

DriverNext ==
    \/ Propose
    \/ Exhausted
    \/ Push
    \/ AssertNotValid
    \/ Reject
    \/ Accept
    \/ Pop

SpecDriver == DriverInit /\ [][DriverNext]_vars

\* solver sessions are fair: a step that can be taken is taken
SpecDriverFair == DriverInit /\ [][DriverNext]_vars /\ WF_vars(DriverNext)

(***************************************************************************)
(* Claims about the candidate loop.                                        *)
(***************************************************************************)
\* the structures of the goal model in which a formula is false at some world
Countermodels(formula) ==
    {struct \in goal_model.models :
        ~interpret_on_all_worlds(formula, FrameOf(struct), ValuationOf(struct))}

\* C13: a proposed candidate is appended to true_formulas iff no model of
\* the goal theory within the size bound, under its interpretation of P,
\* makes the candidate false at some world; every formula of true_formulas
\* is valid on the goal structures within the bound at every point of the
\* run, and no rejected candidate is in true_formulas.
C13_AcceptedIffNoCountermodel ==
    dpc # "idle" =>
        /\ \A i \in DOMAIN true_formulas : Countermodels(true_formulas[i]) = {}
        /\ \A i \in DOMAIN rejected :
                /\ Countermodels(rejected[i]) # {}
                /\ ~In(rejected[i], true_formulas)
        /\ dpc \in {"pop", "loop", "done"} =>
                \A i \in DOMAIN proposed :
                    In(proposed[i], true_formulas) <=> Countermodels(proposed[i]) = {}

\* the loop has ended with an accepted and a rejected candidate
C13_Witness ==
    /\ dpc = "done"
    /\ In(axiom_T, true_formulas)
    /\ In(atom_p, rejected)

\* the tuple has no element twice
NoDuplicates(tuple) ==
    \A i, j \in DOMAIN tuple : tuple[i] = tuple[j] => i = j

\* C14: the candidate loop terminates: once a candidate is rejected or
\* accepted, solver1 has no model with that candidate, no candidate is
\* proposed twice, the number of iterations is at most the number of
\* formulas of the template, and solver1 ends up unsatisfiable.
C14_LoopTerminates ==
    /\ [](dpc # "idle" =>
            /\ NoDuplicates(proposed)
            /\ Len(proposed) <= Cardinality(formula_template)
            /\ dpc \in {"pop", "loop", "done"} =>
                    \A i \in DOMAIN proposed : proposed[i] \notin Solver1Candidates)
    /\ <>(dpc = "done" /\ Solver1Candidates = {})

\* the loop has ended after an iteration of each branch
C14_Witness ==
    /\ dpc = "done"
    /\ Len(true_formulas) >= 1
    /\ Len(rejected) >= 1
    /\ Len(proposed) = Len(true_formulas) + Len(rejected)

\* C15: solver2 holds only the constraint of the goal model at the start of
\* every iteration (stack depth 0); one push opens a level that holds the
\* negation of the candidate at hand and nothing else when solver2 solves;
\* one pop closes it on the rejected and on the accepted branch; the depth
\* is never negative.
C15_StackDiscipline ==
    dpc # "idle" =>
        /\ Len(solver2) >= 1
        /\ dpc \in {"loop", "push", "done"} => solver2 = <<<<ModelConstraint>>>>
        /\ dpc = "assert" => solver2 = <<<<ModelConstraint>>, <<>>>>
        /\ dpc \in {"solve", "pop"} =>
                solver2 = <<<<ModelConstraint>>, <<NotValid(cand)>>>>

\* a second candidate is checked after a rejected one
C15_Witness ==
    /\ dpc = "solve"
    /\ Len(rejected) >= 1
    /\ ~In(cand, rejected)

(***************************************************************************)
(* examples/axiomatization.py, lines 130-149: after the loop the           *)
(* complement theory is built from the axioms of the goal theory and the   *)
(* constraint of its model template is handed to a solver, which evaluates *)
(* it on the structures within the bound.                                  *)
(***************************************************************************)
\* the mutant of the loop that keeps the negation of the last axiom only
RECURSIVE complement_axiom_loop_last(_, _)
complement_axiom_loop_last(sentences, complement_axiom) ==
    IF sentences = <<>> THEN complement_axiom
    ELSE complement_axiom_loop_last(Tail(sentences),
            IF Head(sentences).cls = "Axiom"
            THEN Negation(Head(sentences).formula)
            ELSE complement_axiom)

\* for sentence in goal_theory.sentences: if isinstance(sentence, Axiom): ...
RECURSIVE complement_axiom_loop(_, _)
complement_axiom_loop(sentences, complement_axiom) ==
    IF sentences = <<>> THEN complement_axiom
    ELSE complement_axiom_loop(Tail(sentences),
            IF Head(sentences).cls = "Axiom"
            THEN Disjunction(complement_axiom, Negation(Head(sentences).formula))
            ELSE complement_axiom)

\* lines 131-144: the complement theory, built when a formula was accepted
BuildComplement ==
    /\ dpc = "done"
    /\ Len(true_formulas) # 0
    /\ complement_theory' =
            extend_axioms(trivial_theory,
                <<complement_axiom_loop(goal_model.theory.sentences, Falsum)>>)
    /\ dpc' = "complement"
    /\ UNCHANGED <<formula_template, trivial_model, goal_model, solver1, solver2, cand,
                   true_formulas, proposed, rejected, complement_structure,
                   svars, lvars, tvars, gvars>>

\* lines 148-149: the constraint of the complement model, evaluated by the
\* solver on a structure within the size bound
ComplementConstraint ==
    /\ dpc = "complement"
    /\ \E struct \in trivial_model.models :
            complement_structure' =
                [structure |-> struct,
                 admitted |-> IsModelOf(struct, complement_theory)]
    /\ dpc' = "complement_model"
    /\ UNCHANGED <<formula_template, trivial_model, goal_model, solver1, solver2, cand,
                   true_formulas, proposed, rejected, complement_theory,
                   svars, lvars, tvars, gvars>>

\* the goal theories of the runs: those of the file and one with two axioms
GoalTheories ==
    {reflexivity_theory, symmetric_theory, transitive_theory, rst_theory,
     extend_axioms(reflexivity_theory, <<symmetric_theory.sentences[4].formula>>)}

ComplementInit ==
    \E goal_theory \in GoalTheories : DriverSetup(goal_theory, MaxWorlds, {axiom_T})

ComplementNext ==
    \/ DriverNext
    \/ BuildComplement
    \/ ComplementConstraint

SpecComplement == ComplementInit /\ [][ComplementNext]_vars

\* C16: the complement theory is the trivial theory with one more axiom,
\* over the language of the goal theory, and a structure within the bound
\* satisfies it iff the structure is not a model of the goal theory, that
\* is iff it violates an axiom of the goal theory.
C16_ComplementTheory ==
    /\ dpc \in {"complement", "complement_model"} =>
            /\ complement_theory.language = goal_model.theory.language
            /\ Len(complement_theory.sentences) = Len(trivial_theory.sentences) + 1
    /\ dpc = "complement_model" =>
            LET struct == complement_structure.structure
                goal_axioms == {i \in DOMAIN goal_model.theory.sentences :
                                    goal_model.theory.sentences[i].cls = "Axiom"}
            IN  /\ complement_structure.admitted <=> struct \notin goal_model.models
                /\ complement_structure.admitted <=>
                        \E i \in goal_axioms :
                            ~interpret(goal_model.theory.sentences[i].formula,
                                       struct, <<>>).value

\* a structure that satisfies one of two goal axioms and not the other is
\* admitted by the complement theory
C16_Witness ==
    /\ dpc = "complement_model"
    /\ complement_structure.admitted
    /\ Len(goal_model.theory.sentences) = 5
    /\ interpret(goal_model.theory.sentences[5].formula,
                 complement_structure.structure, <<>>).value

(***************************************************************************)
(* Scenario S1: the driver with the reflexivity theory as the goal, frames *)
(* of at most three worlds, and the two formulas of the scenario in the    *)
(* template.                                                               *)
(***************************************************************************)
Scenario1Init ==
    DriverSetup(reflexivity_theory, scenario_frame_size, {axiom_T, axiom_4})

SpecScenario1 == Scenario1Init /\ [][DriverNext]_vars

\* C17: in scenario S1, Box(p) -> p is true at every world of every
\* reflexive structure of at most three worlds, Box(p) -> Box(Box(p)) is
\* false at a world of one of them; the driver never rejects the first nor
\* accepts the second, and ends with the first accepted and the second
\* rejected.
C17_Scenario1 ==
    dpc # "idle" =>
        /\ goal_model.sort_sizes = scenario_frame_size
        /\ Countermodels(axiom_T) = {}
        /\ Countermodels(axiom_4) # {}
        /\ ~In(axiom_T, rejected)
        /\ ~In(axiom_4, true_formulas)
        /\ dpc = "done" =>
                /\ true_formulas = <<axiom_T>>
                /\ In(axiom_4, rejected)

\* the loop of the scenario has ended after both candidates were checked
C17_Witness ==
    /\ dpc = "done"
    /\ goal_model.theory = reflexivity_theory
    /\ Len(proposed) = 2
    /\ In(axiom_T, true_formulas)
    /\ In(axiom_4, rejected)

(***************************************************************************)
(* TermTemplate.enumerate (formula.py): a generator of (sort, term) pairs. *)
(* terms maps a sort to the list, by depth, of the lists of its terms.     *)
(* A round of the loop over the depths is run when its first pair is asked *)
(* for; nothing but the yields is visible from outside the generator.      *)
(***************************************************************************)
\* depth of TermTemplate.enumerate
MaxEnumerateDepth == 2

\* itertools.product(*lists): the tuples in lexicographic order of positions
RECURSIVE itertools_product(_)
itertools_product(lists) ==
    IF lists = <<>> THEN << <<>> >>
    ELSE LET rest == itertools_product(Tail(lists))
         IN  Flatten([i \in DOMAIN lists[1] |->
                        [j \in DOMAIN rest |-> <<lists[1][i]>> \o rest[j]]])

\* the mutant of the test of the depth combinations that skips none
skip_subterm_depths_never(depth, subterm_depths) == FALSE

\* if depth - 1 not in subterm_depths: continue
skip_subterm_depths(depth, subterm_depths) ==
    \A i \in DOMAIN subterm_depths : subterm_depths[i] # depth - 1

\* one round of `for depth in range(self.depth + 1)`: the dictionary of
\* terms after it and the pairs it yields, in order
enumerate_depth(self, terms_before, depth) ==
    LET function_symbols == self.language.function_symbols
        \* add_term(sort, depth, term) for the terms of a list, in order
        add_terms(terms, sort, new_terms) ==
            LET declared == IF sort \in DOMAIN terms THEN terms
                            ELSE (sort :> <<>>) @@ terms
                lists == declared[sort]
                padded == IF Len(lists) <= depth
                          THEN lists \o [i \in 1 .. (depth - Len(lists) + 1) |-> <<>>]
                          ELSE lists
            IN  [declared EXCEPT ![sort] = [padded EXCEPT ![depth + 1] = @ \o new_terms]]
        \* get_terms_at_depth(sort, depth)
        get_terms_at_depth(terms, sort, subterm_depth) ==
            IF sort \notin DOMAIN terms THEN <<>>
            ELSE IF Len(terms[sort]) <= subterm_depth THEN <<>>
            ELSE terms[sort][subterm_depth + 1]
        \* add_term(...) for each term of a list, then its yield under
        \* `self.sort is None or sort == self.sort`
        add_and_yield(st, sort, new_terms) ==
            IF new_terms = <<>> THEN st
            ELSE [terms |-> add_terms(st.terms, sort, new_terms),
                  out |-> IF self.sort = None \/ sort = self.sort
                          THEN st.out \o [i \in DOMAIN new_terms |-> <<sort, new_terms[i]>>]
                          ELSE st.out]
        \* for free_var in self.free_vars
        RECURSIVE free_vars_loop(_, _)
        free_vars_loop(st, i) ==
            IF i > Len(self.free_vars) THEN st
            ELSE free_vars_loop(
                    add_and_yield(st, self.free_vars[i].sort, <<self.free_vars[i]>>), i + 1)
        \* for symbol in self.language.function_symbols (depth 0)
        RECURSIVE constants_loop(_, _)
        constants_loop(st, k) ==
            IF k > Len(function_symbols) THEN st
            ELSE constants_loop(
                    IF function_symbols[k].input_sorts = <<>>
                    THEN add_and_yield(st, function_symbols[k].output_sort,
                                       <<Application(function_symbols[k], <<>>)>>)
                    ELSE st, k + 1)
        \* for subterms in itertools.product(*subterm_lists): the terms of
        \* the loop, which appends them one after the other
        applications(st, symbol, subterm_depths) ==
            LET tuples == itertools_product(
                            [i \in DOMAIN subterm_depths |->
                                get_terms_at_depth(st.terms, symbol.input_sorts[i],
                                                   subterm_depths[i])])
            IN  [j \in DOMAIN tuples |-> Application(symbol, tuples[j])]
        \* for subterm_depths in itertools.product(tuple(range(depth)), repeat=arity)
        RECURSIVE subterm_depths_loop(_, _, _, _)
        subterm_depths_loop(st, symbol, combinations, j) ==
            IF j > Len(combinations) THEN st
            ELSE subterm_depths_loop(
                    IF skip_subterm_depths(depth, combinations[j]) THEN st
                    ELSE add_and_yield(st, symbol.output_sort,
                                       applications(st, symbol, combinations[j])),
                    symbol, combinations, j + 1)
        \* for symbol in self.language.function_symbols (depth > 0)
        RECURSIVE symbols_loop(_, _)
        symbols_loop(st, k) ==
            IF k > Len(function_symbols) THEN st
            ELSE symbols_loop(
                    IF function_symbols[k].input_sorts = <<>> THEN st
                    ELSE subterm_depths_loop(st, function_symbols[k],
                            itertools_product(
                                [i \in DOMAIN function_symbols[k].input_sorts |->
                                    [d \in 1 .. depth |-> d - 1]]), 1),
                    k + 1)
        start == [terms |-> terms_before, out |-> <<>>]
    IN  IF depth = 0 THEN constants_loop(free_vars_loop(start, 1), 1)
        ELSE symbols_loop(start, 1)

\* the generator runs until it has a pair to yield or its loop has ended
RECURSIVE enumerate_resume(_, _)
enumerate_resume(self, frame) ==
    IF frame.pending # <<>> \/ frame.depth > self.depth THEN frame
    ELSE LET round == enumerate_depth(self, frame.terms, frame.depth)
         IN  enumerate_resume(self,
                [terms |-> round.terms, depth |-> frame.depth + 1, pending |-> round.out])

\* a TermTemplate is constructed
EnumerateInit ==
    /\ tmpl \in {TermTemplate(TermLanguage, free_vars, depth, sort, 0) :
                    free_vars \in {<<>>, <<var_x>>, <<var_x, var_z>>},
                    depth \in 0 .. MaxEnumerateDepth,
                    sort \in {None, sort_world, sort_U}}
    /\ cur = tmpl
    /\ sigmas = <<>>
    /\ fresh = TemplateSymbols(tmpl)
    /\ assertion = None
    /\ solver_model = <<>>
    /\ candidate = None
    /\ orig_candidate = None
    /\ eq = None
    /\ tpc = "enumerate"
    /\ EnumerateIdle
    /\ SyntaxIdle
    /\ LanguageIdle
    /\ DriverIdle

\* generator = template.enumerate(): no statement of the body runs yet
Enumerate ==
    /\ tpc = "enumerate"
    /\ generator' = [terms |-> <<>>, depth |-> 0, pending |-> <<>>]
    /\ tpc' = "enumerating"
    /\ UNCHANGED <<tmpl, cur, sigmas, fresh, assertion, solver_model, candidate,
                   orig_candidate, eq, yielded, svars, lvars, dvars>>

\* next(generator): the body runs to its next yield
NextPair ==
    /\ tpc = "enumerating"
    /\ LET frame == enumerate_resume(tmpl, generator)
       IN  /\ frame.pending # <<>>
           /\ yielded' = Append(yielded, Head(frame.pending))
           /\ generator' = [frame EXCEPT !.pending = Tail(@)]
    /\ UNCHANGED <<svars, lvars, tvars, dvars>>

\* next(generator): the body runs to its end (StopIteration)
StopIteration ==
    /\ tpc = "enumerating"
    /\ LET frame == enumerate_resume(tmpl, generator)
       IN  /\ frame.pending = <<>>
           /\ generator' = frame
    /\ tpc' = "exhausted"
    /\ UNCHANGED <<tmpl, cur, sigmas, fresh, assertion, solver_model, candidate,
                   orig_candidate, eq, yielded, svars, lvars, dvars>>

EnumerateNext ==
    \/ Enumerate
    \/ NextPair
    \/ StopIteration

SpecEnumerate == EnumerateInit /\ [][EnumerateNext]_vars

\* the height of a term: 0 for a variable and for a constant
RECURSIVE Height(_)
Height(term) ==
    IF term.cls = "Variable" \/ term.arguments = <<>> THEN 0
    ELSE LET heights == {Height(term.arguments[i]) : i \in DOMAIN term.arguments}
         IN  1 + CHOOSE h \in heights : \A other \in heights : other <= h

\* C18: every pair the generator yields holds a well-sorted term of height
\* at most depth, of the template's sort if one is set, with the sort of the
\* term; no pair is yielded twice; heights never decrease along the stream;
\* the stream ends, and every such term was yielded when it does.
C18_Enumerate ==
    tpc \in {"enumerating", "exhausted"} =>
        LET sorts == {sort \in {sort_world, sort_U} :
                        tmpl.sort = None \/ sort = tmpl.sort}
            expected == UNION {{<<sort, term>> :
                                    term \in WellSortedTerms(tmpl.language, tmpl.free_vars,
                                                             sort, tmpl.depth)} :
                               sort \in sorts}
        IN  /\ \A i \in DOMAIN yielded :
                    /\ yielded[i] \in expected
                    /\ Height(yielded[i][2]) <= tmpl.depth
                    /\ yielded[i][1] = IF yielded[i][2].cls = "Variable"
                                       THEN yielded[i][2].sort
                                       ELSE yielded[i][2].function_symbol.output_sort
            /\ NoDuplicates(yielded)
            /\ \A i, j \in DOMAIN yielded :
                    i <= j => Height(yielded[i][2]) <= Height(yielded[j][2])
            /\ tpc = "exhausted" => {yielded[i] : i \in DOMAIN yielded} = expected

\* the generator of a template of depth 2 without a sort is exhausted after
\* terms of the three heights and of both sorts
C18_Witness ==
    /\ tpc = "exhausted"
    /\ tmpl.sort = None
    /\ \E i, j \in DOMAIN yielded :
            /\ Height(yielded[i][2]) = 1
            /\ Height(yielded[j][2]) = 2
            /\ yielded[i][1] # yielded[j][1]

(***************************************************************************)
(* interpret of the templates (formula.py).  The backend term a template   *)
(* builds is a nest of ite keyed on the tag; it is kept here by its value  *)
(* in a solver model, with a mark that tells whether the value comes from  *)
(* the innermost else of the nest (the fresh symbol, or FALSE).            *)
(***************************************************************************)
RECURSIVE TermTemplate_interpret_as_sort(_, _, _, _, _)
TermTemplate_interpret_as_sort(self, sort, struct, val, model) ==
    LET tag == BoundedIntegerVariable_get_from_smt_model(self.node, model)
        \* self.substitution[variable].interpret(structure, valuation)
        substituted(variable) ==
            LET term == self.substitution[variable]
            IN  IF term.cls = "TermTemplate"
                THEN TermTemplate_interpret_as_sort(term, term.sort, struct, val, model)
                ELSE [value |-> interpret(term, struct, val).value, by_default |-> FALSE]
        \* interp after the iterations 1 .. node_value of the loop
        RECURSIVE loop(_)
        loop(node_value) ==
            IF node_value = 0
            THEN \* smt.FreshSymbol(carrier.get_smt_sort()): any element
                 [value |-> CHOOSE a \in interpret_sort(struct, sort) : TRUE,
                  by_default |-> TRUE]
            ELSE
            LET interp == loop(node_value - 1)
            IN  IF node_value <= Len(self.free_vars)
                THEN LET variable == self.free_vars[node_value]
                     IN  IF variable.sort = sort
                         THEN IF tag = node_value THEN substituted(variable) ELSE interp
                         ELSE interp
                ELSE LET symbol == self.language.function_symbols[
                                        node_value - Len(self.free_vars)]
                         arity == Len(symbol.input_sorts)
                         used == Prefix(self.subterms, arity)
                         arguments == [i \in DOMAIN used |->
                                        TermTemplate_interpret_as_sort(
                                            used[i], symbol.input_sorts[i], struct, val, model)]
                     IN  IF symbol.output_sort = sort /\ (self.depth # 0 \/ arity = 0)
                         THEN IF tag = node_value
                              THEN [value |-> interpret_function(struct, symbol,
                                        [i \in DOMAIN arguments |-> arguments[i].value]),
                                    by_default |-> \E i \in DOMAIN arguments :
                                                        arguments[i].by_default]
                              ELSE interp
                         ELSE interp
    IN  loop(Len(self.free_vars) + Len(self.language.function_symbols))

\* the mutant of the interpretation of an atomic template whose loop has
\* no branch for the relation symbols
AtomicFormulaTemplate_interpret_constants(self, struct, val, model) ==
    LET tag == BoundedIntegerVariable_get_from_smt_model(self.node, model)
    IN  [value |-> tag = 2, by_default |-> tag \notin {1, 2}]

AtomicFormulaTemplate_interpret(self, struct, val, model) ==
    LET tag == BoundedIntegerVariable_get_from_smt_model(self.node, model)
        \* interp after the iterations 1 .. node_value of the loop
        RECURSIVE loop(_)
        loop(node_value) ==
            IF node_value = 0 THEN [value |-> FALSE, by_default |-> TRUE]
            ELSE
            LET interp == loop(node_value - 1)
            IN  IF node_value = 1
                THEN IF tag = node_value THEN [value |-> FALSE, by_default |-> FALSE]
                     ELSE interp
                ELSE IF node_value = 2
                THEN IF tag = node_value THEN [value |-> TRUE, by_default |-> FALSE]
                     ELSE interp
                ELSE LET symbol == self.language.relation_symbols[node_value - 2]
                         arity == Len(symbol.input_sorts)
                         used == Prefix(self.subterms, arity)
                         arguments == [i \in DOMAIN used |->
                                        TermTemplate_interpret_as_sort(
                                            used[i], symbol.input_sorts[i], struct, val, model)]
                     IN  IF tag = node_value
                         THEN [value |-> interpret_relation(struct, symbol,
                                    [i \in DOMAIN arguments |-> arguments[i].value]),
                               by_default |-> \E i \in DOMAIN arguments :
                                                    arguments[i].by_default]
                         ELSE interp
    IN  loop(2 + Len(self.language.relation_symbols))

RECURSIVE QuantifierFreeFormulaTemplate_interpret(_, _, _, _)
QuantifierFreeFormulaTemplate_interpret(self, struct, val, model) ==
    LET tag == BoundedIntegerVariable_get_from_smt_model(self.node, model)
        sub(i) == QuantifierFreeFormulaTemplate_interpret(self.subformulas[i],
                                                          struct, val, model)
        unary(value) == [value |-> value, by_default |-> sub(1).by_default]
        binary(value) ==
            [value |-> value, by_default |-> sub(1).by_default \/ sub(2).by_default]
        \* interp after the iterations up to node_value of the loop over
        \* self.node.get_range()
        RECURSIVE loop(_)
        loop(node_value) ==
            IF node_value < self.node.lower THEN [value |-> FALSE, by_default |-> TRUE]
            ELSE
            LET interp == loop(node_value - 1)
            IN  IF node_value = 1
                THEN IF tag = node_value
                     THEN AtomicFormulaTemplate_interpret(self.atom, struct, val, model)
                     ELSE interp
                ELSE IF self.formula_depth # 0 /\ node_value \in 2 .. 6
                THEN IF tag = node_value
                     THEN CASE node_value = 2 -> binary(sub(1).value /\ sub(2).value)
                            [] node_value = 3 -> binary(sub(1).value \/ sub(2).value)
                            [] node_value = 4 -> unary(~sub(1).value)
                            [] node_value = 5 -> binary(sub(1).value => sub(2).value)
                            [] node_value = 6 -> binary(sub(1).value <=> sub(2).value)
                     ELSE interp
                ELSE interp
    IN  loop(self.node.upper)

\* a template over the symbols the structures interpret is constructed
TemplateInterpretInit ==
    /\ tmpl \in {TermTemplate(AtomLanguage, free_vars, depth, sort_world, 0) :
                    free_vars \in {<<var_x>>, <<var_x, var_y>>}, depth \in 0 .. MaxDepth}
                \cup AtomicFormulaTemplates
                \cup QuantifierFreeFormulaTemplates
    /\ cur = tmpl
    /\ sigmas = <<>>
    /\ fresh = TemplateSymbols(tmpl)
    /\ assertion = None
    /\ solver_model = <<>>
    /\ candidate = None
    /\ orig_candidate = None
    /\ eq = None
    /\ tpc = "constructed"
    /\ SyntaxIdle
    /\ LanguageIdle
    /\ DriverIdle
    /\ EnumerateIdle

\* template.interpret(structure, valuation) (interpret_as_sort for a term
\* template), evaluated in the model, and the interpretation of the value
\* read off the model
InterpretTemplate ==
    /\ tpc = "extracted"
    /\ ~candidate.raised
    /\ \E struct \in Structures, val \in Valuations :
            /\ structure' = struct
            /\ valuation' = val
            /\ lhs' = CASE cur.cls = "TermTemplate" ->
                            TermTemplate_interpret_as_sort(cur, cur.sort, struct, val,
                                                           solver_model)
                        [] cur.cls = "AtomicFormulaTemplate" ->
                            AtomicFormulaTemplate_interpret(cur, struct, val, solver_model)
                        [] cur.cls = "QuantifierFreeFormulaTemplate" ->
                            QuantifierFreeFormulaTemplate_interpret(cur, struct, val,
                                                                    solver_model)
            /\ rhs' = interpret(candidate.value, struct, val)
    /\ tpc' = "interpreted"
    /\ UNCHANGED <<e, e0, sigma, spc, built, tmpl, cur, sigmas, fresh, assertion,
                   solver_model, candidate, orig_candidate, eq, lvars, dvars, gvars>>

TemplateInterpretNext ==
    \/ AddAssertion
    \/ Decide
    \/ Solve
    \/ SubstituteTemplate
    \/ GetFromModel
    \/ InterpretTemplate

SpecTemplateInterpret == TemplateInterpretInit /\ [][TemplateInterpretNext]_vars

\* C19: for a model of the constraint of a template, the value of the
\* template's interpretation in a structure and a valuation is the value of
\* the interpretation of the term or formula read off the model, and it
\* does not come from the innermost else of the nest of ite.
C19_InterpretAgrees ==
    tpc = "interpreted" =>
        /\ ~rhs.raised
        /\ lhs.value = rhs.value
        /\ ~lhs.by_default

\* a formula template whose model selects a connective over relation
\* applications has been interpreted
C19_Witness ==
    /\ tpc = "interpreted"
    /\ cur.cls = "QuantifierFreeFormulaTemplate"
    /\ candidate.value.cls \in BinaryClasses
    /\ candidate.value.left.cls = "RelationApplication"
    /\ lhs.value

(***************************************************************************)
(* Claim about allow_constant of QuantifierFreeFormulaTemplate.            *)
(***************************************************************************)
\* the control variables of a template tree
RECURSIVE NodesOf(_)
NodesOf(template) ==
    {template.node}
    \cup (IF template.cls = "QuantifierFreeFormulaTemplate"
          THEN NodesOf(template.atom)
               \cup UNION {NodesOf(template.subformulas[i]) :
                            i \in DOMAIN template.subformulas}
          ELSE UNION {NodesOf(template.subterms[i]) : i \in DOMAIN template.subterms})

\* the tag assignments that give every control variable of a template a
\* value of its range
TagAssignments(template) ==
    Tuples([symbol \in 1 .. TemplateSymbols(template) |->
                LET node == CHOOSE n \in NodesOf(template) : n.symbol = symbol
                IN  node.lower .. node.upper])

\* the formulas over Verum, Falsum and P(x) with at most one connective,
\* a negation
ConstantLeafFormulas ==
    LET leaves == {Verum, Falsum, RelationApplication(p_symbol, <<var_x>>)}
    IN  leaves \cup {Negation(leaf) : leaf \in leaves}

\* C20: a QuantifierFreeFormulaTemplate created with allow_constant = true
\* and formula_depth 1 admits every formula of connective depth at most 1
\* over Verum, Falsum and relation applications: some tag assignment
\* satisfies the asserted constraint and decodes to the formula.
C20_AllowConstantBelowConnective ==
    (/\ tpc = "solving"
     /\ solver_model = <<>>
     /\ tmpl.cls = "QuantifierFreeFormulaTemplate"
     /\ tmpl.atom.allow_constant
     /\ tmpl.formula_depth = 1) =>
        \A formula \in ConstantLeafFormulas :
            \E model \in TagAssignments(tmpl) :
                /\ Template_get_from_smt_model(tmpl, model) = Return(formula)
                /\ Eval(assertion, model) = "T"

(***************************************************************************)
(* Relative completeness of the candidate loop at its exit.                *)
(***************************************************************************)
CompletenessInit ==
    \E goal_theory \in {rst_theory,
                         extend_axioms(reflexivity_theory,
                                       <<symmetric_theory.sentences[4].formula>>)} :
        DriverSetup(goal_theory, MaxWorlds, {atom_p, axiom_T, axiom_D})

SpecCompleteness == CompletenessInit /\ [][DriverNext]_vars

\* the frames of the structures a model template admits, one structure
\* (that of the empty P) for each frame
FramesOf(model) == {struct \in model.models : struct.relations["P"] = {}}

\* a formula is true at every world of the frame of a structure under
\* every interpretation of P
ValidOnFrame(formula, struct) ==
    \A proposition \in SUBSET struct.carriers["W"] :
        LET valued == WithProposition(struct, {<<w>> : w \in proposition})
        IN  interpret_on_all_worlds(formula, FrameOf(valued), ValuationOf(valued))

\* C21: when solver1 is unsatisfiable and the loop has ended, every formula
\* of the template that is valid on all frames of the goal theory within
\* the size bound is valid on every frame within the bound on which all
\* formulas of true_formulas are valid.
C21_RelativeCompleteness ==
    dpc = "done" =>
        \A formula \in formula_template :
            (\A goal \in FramesOf(goal_model) : ValidOnFrame(formula, goal)) =>
                \A struct \in FramesOf(trivial_model) :
                    (\A i \in DOMAIN true_formulas :
                        ValidOnFrame(true_formulas[i], struct)) =>
                            ValidOnFrame(formula, struct)

\* the loop has ended and a formula that is valid on the goal frames was
\* never proposed: it follows from the accepted ones
C21_Witness ==
    /\ dpc = "done"
    /\ Solver1Candidates = {}
    /\ \A goal \in FramesOf(goal_model) : ValidOnFrame(axiom_D, goal)
    /\ ~In(axiom_D, proposed)
    /\ In(axiom_T, true_formulas)

(***************************************************************************)
(* language.py: lookup by name, and names after expand.                    *)
(***************************************************************************)
\* for sort in self.sorts: if sort.name == name: return sort; return None
get_sort(self, name) ==
    LET found == {i \in DOMAIN self.sorts : self.sorts[i].name = name}
    IN  IF found = {} THEN None
        ELSE self.sorts[CHOOSE i \in found : \A j \in found : i <= j]

\* for symbol in self.function_symbols: if symbol.name == name: return symbol; return None
get_function_symbol(self, name) ==
    LET found == {i \in DOMAIN self.function_symbols : self.function_symbols[i].name = name}
    IN  IF found = {} THEN None
        ELSE self.function_symbols[CHOOSE i \in found : \A j \in found : i <= j]

\* for symbol in self.relation_symbols: if symbol.name == name: return symbol; return None
get_relation_symbol(self, name) ==
    LET found == {i \in DOMAIN self.relation_symbols : self.relation_symbols[i].name = name}
    IN  IF found = {} THEN None
        ELSE self.relation_symbols[CHOOSE i \in found : \A j \in found : i <= j]

\* no two entries of a tuple of declarations have the same name
UniqueNames(declarations) ==
    \A i, j \in DOMAIN declarations :
        declarations[i].name = declarations[j].name => i = j

UniquelyNamed(language) ==
    /\ UniqueNames(language.sorts)
    /\ UniqueNames(language.function_symbols)
    /\ UniqueNames(language.relation_symbols)

\* C22: if self and other each declare at most one sort, one function symbol
\* and one relation symbol per name and self.expand(other) succeeds, the
\* result declares at most one of each per name, and get_sort,
\* get_function_symbol and get_relation_symbol return the only declaration
\* of the name.
C22_ExpandKeepsNamesUnique ==
    (/\ lpc = "expanded"
     /\ ~lang_result.raised
     /\ UniquelyNamed(lang_self)
     /\ UniquelyNamed(lang_other)) =>
        LET result == lang_result.value
        IN  /\ UniquelyNamed(result)
            /\ \A i \in DOMAIN result.sorts :
                    get_sort(result, result.sorts[i].name) = result.sorts[i]
            /\ \A i \in DOMAIN result.function_symbols :
                    get_function_symbol(result, result.function_symbols[i].name)
                        = result.function_symbols[i]
            /\ \A i \in DOMAIN result.relation_symbols :
                    get_relation_symbol(result, result.relation_symbols[i].name)
                        = result.relation_symbols[i]

(***************************************************************************)
(* Trees with template nodes below concrete nodes: a template as an        *)
(* argument of an Application or of a RelationApplication, and a template  *)
(* whose variable was substituted by such a tree.                          *)
(***************************************************************************)
\* inner = TermTemplate(...); outer = TermTemplate(..., (y,), 0) and the
\* trees built from them, with the number of control variables drawn
NestedTrees ==
    UNION {LET inner == TermTemplate(AtomLanguage, <<var_x>>, depth, sort_world, 0)
               drawn == TermTemplateSymbols(AtomLanguage, depth)
               outer == TermTemplate(AtomLanguage, <<var_y>>, 0, sort_world, drawn)
               after == drawn + TermTemplateSymbols(AtomLanguage, 0)
               wrapped == Application(f_symbol, <<inner>>)
           IN  {[tree |-> inner, fresh |-> drawn],
                [tree |-> wrapped, fresh |-> drawn],
                [tree |-> RelationApplication(p_symbol, <<inner>>), fresh |-> drawn],
                [tree |-> RelationApplication(p_symbol, <<wrapped>>), fresh |-> drawn],
                [tree |-> RelationApplication(transition_symbol, <<inner, outer>>),
                 fresh |-> after],
                [tree |-> TermTemplate_substitute(outer, [v \in {var_y} |-> inner], after),
                 fresh |-> after + TermTemplateSubstituteSymbols(outer)],
                [tree |-> TermTemplate_substitute(outer, [v \in {var_y} |-> wrapped], after),
                 fresh |-> after + TermTemplateSubstituteSymbols(outer)]} :
           depth \in 0 .. MaxDepth}

NestedInit ==
    /\ \E nested \in NestedTrees :
            /\ tmpl = nested.tree
            /\ fresh = nested.fresh
    /\ cur = tmpl
    /\ sigmas = <<>>
    /\ assertion = None
    /\ solver_model = <<>>
    /\ candidate = None
    /\ orig_candidate = None
    /\ eq = None
    /\ tpc = "constructed"
    /\ SyntaxIdle
    /\ LanguageIdle
    /\ DriverIdle
    /\ EnumerateIdle

NestedNext ==
    \/ AddAssertion
    \/ Decide
    \/ Solve
    \/ GetFromModel

SpecNested == NestedInit /\ [][NestedNext]_vars

\* no template node occurs in a term or an atomic formula
RECURSIVE Concrete(_)
Concrete(tree) ==
    CASE tree.cls = "Variable" -> TRUE
      [] tree.cls \in {"Application", "RelationApplication"} ->
            \A i \in DOMAIN tree.arguments : Concrete(tree.arguments[i])
      [] OTHER -> FALSE

\* C23: get_from_smt_model returns a fully concrete object: for every tree
\* in which template nodes occur at any position, a TermTemplate below a
\* concrete Application included, the tree returned for a model of the
\* constraint contains no template node.
C23_ReturnsConcrete ==
    (tpc = "extracted" /\ ~candidate.raised) => Concrete(candidate.value)

\* in the same runs the templates that are not below an Application are
\* decoded: the value read off a RelationApplication over a template
C23_DecodedArgument ==
    /\ tpc = "extracted"
    /\ tmpl = RelationApplication(p_symbol,
                <<TermTemplate(AtomLanguage, <<var_x>>, 0, sort_world, 0)>>)
    /\ candidate = Return(RelationApplication(p_symbol, <<var_x>>))

(***************************************************************************)
(* The union machine: a union template is constructed and substituted      *)
(* into; the constraints of both templates are asserted on one solver,     *)
(* which decides the control variables; both templates are read off the    *)
(* model.                                                                  *)
(***************************************************************************)
\* the union templates of the runs, with the number of control variables
\* drawn by their constructors
UnionTemplates ==
    LET term == TermTemplate(AtomLanguage, <<var_x>>, 0, sort_world, 0)
        term_symbols == TermTemplateSymbols(AtomLanguage, 0)
        atom == AtomicFormulaTemplate(PropositionLanguage, <<var_x>>, 0, FALSE, 0)
        atom_symbols == AtomicFormulaTemplateSymbols(PropositionLanguage, 0)
    IN  {[tree |-> UnionTemplate("UnionTermTemplate",
                        <<var_x, Application(f_symbol, <<var_y>>)>>, 0),
          fresh |-> 1],
         [tree |-> UnionTemplate("UnionTermTemplate",
                        <<term, Application(f_symbol, <<var_x>>)>>, term_symbols),
          fresh |-> term_symbols + 1],
         [tree |-> UnionTemplate("UnionFormulaTemplate",
                        <<RelationApplication(p_symbol, <<var_x>>),
                          RelationApplication(transition_symbol, <<var_x, var_y>>)>>, 0),
          fresh |-> 1],
         [tree |-> UnionTemplate("UnionFormulaTemplate",
                        <<atom, RelationApplication(p_symbol, <<var_x>>)>>, atom_symbols),
          fresh |-> atom_symbols + 1]}

UnionInit ==
    /\ \E union \in UnionTemplates :
            /\ tmpl = union.tree
            /\ fresh = union.fresh
    /\ cur = tmpl
    /\ sigmas = <<>>
    /\ assertion = None
    /\ solver_model = <<>>
    /\ candidate = None
    /\ orig_candidate = None
    /\ eq = None
    /\ tpc = "constructed"
    /\ SyntaxIdle
    /\ LanguageIdle
    /\ DriverIdle
    /\ EnumerateIdle

\* substituted = template.substitute(substitution);
\* solver.add_assertion(template.get_constraint());
\* solver.add_assertion(substituted.get_constraint())
UnionSubstitute ==
    /\ tpc = "constructed"
    /\ \E s \in TemplateSubstitutions :
            /\ cur' = Template_substitute(tmpl, s, fresh)
            /\ sigmas' = <<s>>
    /\ fresh' = fresh + TemplateSubstituteSymbols(tmpl)
    /\ assertion' = smt_And(<<Template_get_constraint(tmpl), Template_get_constraint(cur')>>)
    /\ tpc' = "solving"
    /\ UNCHANGED <<tmpl, solver_model, candidate, orig_candidate, eq, svars, lvars, dvars, gvars>>

UnionNext ==
    \/ UnionSubstitute
    \/ Decide
    \/ Solve
    \/ GetFromModel

SpecUnion == UnionInit /\ [][UnionNext]_vars

\* C24: substitute on a UnionFormulaTemplate or UnionTermTemplate returns a
\* union template whose choice tag is the control variable of the original,
\* so the child selected before the substitution is the child selected
\* after it in every solver model.
C24_UnionSubstituteKeepsChoice ==
    tpc = "extracted" =>
        /\ cur.cls = tmpl.cls
        /\ cur.node = tmpl.node
        /\ BoundedIntegerVariable_get_from_smt_model(cur.node, solver_model)
                = BoundedIntegerVariable_get_from_smt_model(tmpl.node, solver_model)

====
